---- MODULE Spec2Model ----
(***************************************************************************)
(* A model of the vxlasm lexer (src/src/lexer.rs).                         *)
(*                                                                         *)
(* The lexer state is the struct Lexer: chars, tokens, index, row, col and *)
(* default_numeric.  One action models one arm of the `match` in           *)
(* Lexer::process, with the whole sub-parser the arm calls.  The only loop *)
(* that is modelled iteration by iteration is the comment loop of the `#`  *)
(* arm, because it need not terminate.                                     *)
(*                                                                         *)
(* A u64 / i64 value is its 64-bit                                         *)
(* pattern, written as four 16-bit limbs, least significant first, so that *)
(* the arithmetic of the code is computed at its width.  A usize cursor    *)
(* value is a plain integer; the one place where a usize subtraction can   *)
(* wrap (current_range) yields the negative integer -k for 2^64 - k.       *)
(*                                                                         *)
(* overflow_checks is the build's `overflow-checks` setting: with it an    *)
(* arithmetic overflow panics, without it the result wraps.                *)
(***************************************************************************)
EXTENDS Integers, Sequences, FiniteSets, TLC

VARIABLES chars, default_numeric, overflow_checks,
          tokens, index, row, col,
          pc, err, spins

vars == <<chars, default_numeric, overflow_checks, tokens, index, row, col, pc, err, spins>>

(***************************************************************************)
(* Bounds of the model.                                                    *)
(***************************************************************************)
MaxDecRun == 21
MaxHexRun == 17
MaxBinRun == 66
MaxSpin == 2

(***************************************************************************)
(* Characters and char predicates (core::char).                            *)
(*                                                                         *)
(* A character is a string.  A printable ASCII character other than the    *)
(* backquote, and each of \t, \n, \f, \r, is the one-character string of  *)
(* itself.  Every other character (the other control characters, the       *)
(* backquote, which a string of the module cannot hold, and all characters *)
(* outside ASCII) is the string "U+" followed by its code point in         *)
(* upper-case hexadecimal, as in "U+000B", "U+00E9", "U+03B1", "U+1680":   *)
(* the module is written in ASCII and does not depend on how a file is     *)
(* decoded.                                                                *)
(* CodePoint gives the code point of either form.                          *)
(*                                                                         *)
(* is_whitespace, is_alphabetic and is_numeric are the Unicode properties  *)
(* White_Space, Alphabetic and General_Category N* that core::char tests,  *)
(* as tables of code point ranges over all of U+0000..U+10FFFF.  The      *)
(* tables are those of Unicode 17.0.0, the version of the standard         *)
(* library's tables (core::unicode::UNICODE_VERSION) in the toolchain the  *)
(* program is built with; the repository pins no toolchain.  is_digit and  *)
(* to_digit know the ASCII digits and letters only, as in core::char.      *)
(***************************************************************************)
None == "None"

DecDigits == {"0", "1", "2", "3", "4", "5", "6", "7", "8", "9"}
LowerHex == {"a", "b", "c", "d", "e", "f"}
UpperHex == {"A", "B", "C", "D", "E", "F"}
BinDigits == {"0", "1"}

is_digit(c, radix) ==
    CASE radix = 2 -> c \in BinDigits
      [] radix = 10 -> c \in DecDigits
      [] radix = 16 -> c \in DecDigits \cup LowerHex \cup UpperHex

to_digit(c) ==
    CASE c = "0" -> 0 [] c = "1" -> 1 [] c = "2" -> 2 [] c = "3" -> 3
      [] c = "4" -> 4 [] c = "5" -> 5 [] c = "6" -> 6 [] c = "7" -> 7
      [] c = "8" -> 8 [] c = "9" -> 9
      [] c \in {"a", "A"} -> 10 [] c \in {"b", "B"} -> 11
      [] c \in {"c", "C"} -> 12 [] c \in {"d", "D"} -> 13
      [] c \in {"e", "E"} -> 14 [] c \in {"f", "F"} -> 15

\* The code points of the characters that are written as themselves.
AsciiCode ==
    "\t" :> 9 @@ "\n" :> 10 @@ "\f" :> 12 @@ "\r" :> 13 @@ " " :> 32 @@ "!" :> 33
    @@ "\"" :> 34 @@ "#" :> 35 @@ "$" :> 36 @@ "%" :> 37 @@ "&" :> 38 @@ "'" :> 39
    @@ "(" :> 40 @@ ")" :> 41 @@ "*" :> 42 @@ "+" :> 43 @@ "," :> 44 @@ "-" :> 45
    @@ "." :> 46 @@ "/" :> 47 @@ "0" :> 48 @@ "1" :> 49 @@ "2" :> 50 @@ "3" :> 51
    @@ "4" :> 52 @@ "5" :> 53 @@ "6" :> 54 @@ "7" :> 55 @@ "8" :> 56 @@ "9" :> 57
    @@ ":" :> 58 @@ ";" :> 59 @@ "<" :> 60 @@ "=" :> 61 @@ ">" :> 62 @@ "?" :> 63
    @@ "@" :> 64 @@ "A" :> 65 @@ "B" :> 66 @@ "C" :> 67 @@ "D" :> 68 @@ "E" :> 69
    @@ "F" :> 70 @@ "G" :> 71 @@ "H" :> 72 @@ "I" :> 73 @@ "J" :> 74 @@ "K" :> 75
    @@ "L" :> 76 @@ "M" :> 77 @@ "N" :> 78 @@ "O" :> 79 @@ "P" :> 80 @@ "Q" :> 81
    @@ "R" :> 82 @@ "S" :> 83 @@ "T" :> 84 @@ "U" :> 85 @@ "V" :> 86 @@ "W" :> 87
    @@ "X" :> 88 @@ "Y" :> 89 @@ "Z" :> 90 @@ "[" :> 91 @@ "\\" :> 92 @@ "]" :> 93
    @@ "^" :> 94 @@ "_" :> 95 @@ "a" :> 97 @@ "b" :> 98 @@ "c" :> 99
    @@ "d" :> 100 @@ "e" :> 101 @@ "f" :> 102 @@ "g" :> 103 @@ "h" :> 104 @@ "i" :> 105
    @@ "j" :> 106 @@ "k" :> 107 @@ "l" :> 108 @@ "m" :> 109 @@ "n" :> 110 @@ "o" :> 111
    @@ "p" :> 112 @@ "q" :> 113 @@ "r" :> 114 @@ "s" :> 115 @@ "t" :> 116 @@ "u" :> 117
    @@ "v" :> 118 @@ "w" :> 119 @@ "x" :> 120 @@ "y" :> 121 @@ "z" :> 122 @@ "{" :> 123
    @@ "|" :> 124 @@ "}" :> 125 @@ "~" :> 126

\* The number that a string of hexadecimal digits denotes.
RECURSIVE HexNumber(_, _)
HexNumber(str, acc) ==
    IF str = "" THEN acc ELSE HexNumber(Tail(str), acc * 16 + to_digit(Head(str)))

\* `c as u32`.
CodePoint(c) ==
    IF c \in DOMAIN AsciiCode THEN AsciiCode[c]
    ELSE HexNumber(Tail(Tail(c)), 0)

\* cp lies in one of ranges[lo..hi], a table of <<first, last>> in
\* ascending order.
RECURSIVE InRanges(_, _, _, _)
InRanges(cp, ranges, lo, hi) ==
    IF lo > hi THEN FALSE
    ELSE LET mid == (lo + hi) \div 2
         IN  IF cp < ranges[mid][1] THEN InRanges(cp, ranges, lo, mid - 1)
             ELSE IF cp > ranges[mid][2] THEN InRanges(cp, ranges, mid + 1, hi)
             ELSE TRUE

\* The property White_Space.
White_Space ==
    <<<<9, 13>>, <<32, 32>>, <<133, 133>>, <<160, 160>>, <<5760, 5760>>, <<8192, 8202>>,
    <<8232, 8233>>, <<8239, 8239>>, <<8287, 8287>>, <<12288, 12288>>>>

\* The property Alphabetic.
Alphabetic ==
    <<<<65, 90>>, <<97, 122>>, <<170, 170>>, <<181, 181>>, <<186, 186>>, <<192, 214>>,
    <<216, 246>>, <<248, 705>>, <<710, 721>>, <<736, 740>>, <<748, 748>>, <<750, 750>>,
    <<837, 837>>, <<867, 884>>, <<886, 887>>, <<890, 893>>, <<895, 895>>, <<902, 902>>,
    <<904, 906>>, <<908, 908>>, <<910, 929>>, <<931, 1013>>, <<1015, 1153>>, <<1162, 1327>>,
    <<1329, 1366>>, <<1369, 1369>>, <<1376, 1416>>, <<1456, 1469>>, <<1471, 1471>>, <<1473, 1474>>,
    <<1476, 1477>>, <<1479, 1479>>, <<1488, 1514>>, <<1519, 1522>>, <<1552, 1562>>, <<1568, 1623>>,
    <<1625, 1631>>, <<1646, 1747>>, <<1749, 1756>>, <<1761, 1768>>, <<1773, 1775>>, <<1786, 1788>>,
    <<1791, 1791>>, <<1808, 1855>>, <<1869, 1969>>, <<1994, 2026>>, <<2036, 2037>>, <<2042, 2042>>,
    <<2048, 2071>>, <<2074, 2092>>, <<2112, 2136>>, <<2144, 2154>>, <<2160, 2183>>, <<2185, 2191>>,
    <<2199, 2199>>, <<2208, 2249>>, <<2260, 2271>>, <<2275, 2281>>, <<2288, 2363>>, <<2365, 2380>>,
    <<2382, 2384>>, <<2389, 2403>>, <<2417, 2435>>, <<2437, 2444>>, <<2447, 2448>>, <<2451, 2472>>,
    <<2474, 2480>>, <<2482, 2482>>, <<2486, 2489>>, <<2493, 2500>>, <<2503, 2504>>, <<2507, 2508>>,
    <<2510, 2510>>, <<2519, 2519>>, <<2524, 2525>>, <<2527, 2531>>, <<2544, 2545>>, <<2556, 2556>>,
    <<2561, 2563>>, <<2565, 2570>>, <<2575, 2576>>, <<2579, 2600>>, <<2602, 2608>>, <<2610, 2611>>,
    <<2613, 2614>>, <<2616, 2617>>, <<2622, 2626>>, <<2631, 2632>>, <<2635, 2636>>, <<2641, 2641>>,
    <<2649, 2652>>, <<2654, 2654>>, <<2672, 2677>>, <<2689, 2691>>, <<2693, 2701>>, <<2703, 2705>>,
    <<2707, 2728>>, <<2730, 2736>>, <<2738, 2739>>, <<2741, 2745>>, <<2749, 2757>>, <<2759, 2761>>,
    <<2763, 2764>>, <<2768, 2768>>, <<2784, 2787>>, <<2809, 2812>>, <<2817, 2819>>, <<2821, 2828>>,
    <<2831, 2832>>, <<2835, 2856>>, <<2858, 2864>>, <<2866, 2867>>, <<2869, 2873>>, <<2877, 2884>>,
    <<2887, 2888>>, <<2891, 2892>>, <<2902, 2903>>, <<2908, 2909>>, <<2911, 2915>>, <<2929, 2929>>,
    <<2946, 2947>>, <<2949, 2954>>, <<2958, 2960>>, <<2962, 2965>>, <<2969, 2970>>, <<2972, 2972>>,
    <<2974, 2975>>, <<2979, 2980>>, <<2984, 2986>>, <<2990, 3001>>, <<3006, 3010>>, <<3014, 3016>>,
    <<3018, 3020>>, <<3024, 3024>>, <<3031, 3031>>, <<3072, 3084>>, <<3086, 3088>>, <<3090, 3112>>,
    <<3114, 3129>>, <<3133, 3140>>, <<3142, 3144>>, <<3146, 3148>>, <<3157, 3158>>, <<3160, 3162>>,
    <<3164, 3165>>, <<3168, 3171>>, <<3200, 3203>>, <<3205, 3212>>, <<3214, 3216>>, <<3218, 3240>>,
    <<3242, 3251>>, <<3253, 3257>>, <<3261, 3268>>, <<3270, 3272>>, <<3274, 3276>>, <<3285, 3286>>,
    <<3292, 3294>>, <<3296, 3299>>, <<3313, 3315>>, <<3328, 3340>>, <<3342, 3344>>, <<3346, 3386>>,
    <<3389, 3396>>, <<3398, 3400>>, <<3402, 3404>>, <<3406, 3406>>, <<3412, 3415>>, <<3423, 3427>>,
    <<3450, 3455>>, <<3457, 3459>>, <<3461, 3478>>, <<3482, 3505>>, <<3507, 3515>>, <<3517, 3517>>,
    <<3520, 3526>>, <<3535, 3540>>, <<3542, 3542>>, <<3544, 3551>>, <<3570, 3571>>, <<3585, 3642>>,
    <<3648, 3654>>, <<3661, 3661>>, <<3713, 3714>>, <<3716, 3716>>, <<3718, 3722>>, <<3724, 3747>>,
    <<3749, 3749>>, <<3751, 3769>>, <<3771, 3773>>, <<3776, 3780>>, <<3782, 3782>>, <<3789, 3789>>,
    <<3804, 3807>>, <<3840, 3840>>, <<3904, 3911>>, <<3913, 3948>>, <<3953, 3971>>, <<3976, 3991>>,
    <<3993, 4028>>, <<4096, 4150>>, <<4152, 4152>>, <<4155, 4159>>, <<4176, 4239>>, <<4250, 4253>>,
    <<4256, 4293>>, <<4295, 4295>>, <<4301, 4301>>, <<4304, 4346>>, <<4348, 4680>>, <<4682, 4685>>,
    <<4688, 4694>>, <<4696, 4696>>, <<4698, 4701>>, <<4704, 4744>>, <<4746, 4749>>, <<4752, 4784>>,
    <<4786, 4789>>, <<4792, 4798>>, <<4800, 4800>>, <<4802, 4805>>, <<4808, 4822>>, <<4824, 4880>>,
    <<4882, 4885>>, <<4888, 4954>>, <<4992, 5007>>, <<5024, 5109>>, <<5112, 5117>>, <<5121, 5740>>,
    <<5743, 5759>>, <<5761, 5786>>, <<5792, 5866>>, <<5870, 5880>>, <<5888, 5907>>, <<5919, 5939>>,
    <<5952, 5971>>, <<5984, 5996>>, <<5998, 6000>>, <<6002, 6003>>, <<6016, 6067>>, <<6070, 6088>>,
    <<6103, 6103>>, <<6108, 6108>>, <<6176, 6264>>, <<6272, 6314>>, <<6320, 6389>>, <<6400, 6430>>,
    <<6432, 6443>>, <<6448, 6456>>, <<6480, 6509>>, <<6512, 6516>>, <<6528, 6571>>, <<6576, 6601>>,
    <<6656, 6683>>, <<6688, 6750>>, <<6753, 6772>>, <<6823, 6823>>, <<6847, 6848>>, <<6860, 6862>>,
    <<6912, 6963>>, <<6965, 6979>>, <<6981, 6988>>, <<7040, 7081>>, <<7084, 7087>>, <<7098, 7141>>,
    <<7143, 7153>>, <<7168, 7222>>, <<7245, 7247>>, <<7258, 7293>>, <<7296, 7306>>, <<7312, 7354>>,
    <<7357, 7359>>, <<7401, 7404>>, <<7406, 7411>>, <<7413, 7414>>, <<7418, 7418>>, <<7424, 7615>>,
    <<7635, 7668>>, <<7680, 7957>>, <<7960, 7965>>, <<7968, 8005>>, <<8008, 8013>>, <<8016, 8023>>,
    <<8025, 8025>>, <<8027, 8027>>, <<8029, 8029>>, <<8031, 8061>>, <<8064, 8116>>, <<8118, 8124>>,
    <<8126, 8126>>, <<8130, 8132>>, <<8134, 8140>>, <<8144, 8147>>, <<8150, 8155>>, <<8160, 8172>>,
    <<8178, 8180>>, <<8182, 8188>>, <<8305, 8305>>, <<8319, 8319>>, <<8336, 8348>>, <<8450, 8450>>,
    <<8455, 8455>>, <<8458, 8467>>, <<8469, 8469>>, <<8473, 8477>>, <<8484, 8484>>, <<8486, 8486>>,
    <<8488, 8488>>, <<8490, 8493>>, <<8495, 8505>>, <<8508, 8511>>, <<8517, 8521>>, <<8526, 8526>>,
    <<8544, 8584>>, <<9398, 9449>>, <<11264, 11492>>, <<11499, 11502>>, <<11506, 11507>>, <<11520, 11557>>,
    <<11559, 11559>>, <<11565, 11565>>, <<11568, 11623>>, <<11631, 11631>>, <<11648, 11670>>, <<11680, 11686>>,
    <<11688, 11694>>, <<11696, 11702>>, <<11704, 11710>>, <<11712, 11718>>, <<11720, 11726>>, <<11728, 11734>>,
    <<11736, 11742>>, <<11744, 11775>>, <<11823, 11823>>, <<12293, 12295>>, <<12321, 12329>>, <<12337, 12341>>,
    <<12344, 12348>>, <<12353, 12438>>, <<12445, 12447>>, <<12449, 12538>>, <<12540, 12543>>, <<12549, 12591>>,
    <<12593, 12686>>, <<12704, 12735>>, <<12784, 12799>>, <<13312, 19903>>, <<19968, 42124>>, <<42192, 42237>>,
    <<42240, 42508>>, <<42512, 42527>>, <<42538, 42539>>, <<42560, 42606>>, <<42612, 42619>>, <<42623, 42735>>,
    <<42775, 42783>>, <<42786, 42888>>, <<42891, 42972>>, <<42993, 43013>>, <<43015, 43047>>, <<43072, 43123>>,
    <<43136, 43203>>, <<43205, 43205>>, <<43250, 43255>>, <<43259, 43259>>, <<43261, 43263>>, <<43274, 43306>>,
    <<43312, 43346>>, <<43360, 43388>>, <<43392, 43442>>, <<43444, 43455>>, <<43471, 43471>>, <<43488, 43503>>,
    <<43514, 43518>>, <<43520, 43574>>, <<43584, 43597>>, <<43616, 43638>>, <<43642, 43710>>, <<43712, 43712>>,
    <<43714, 43714>>, <<43739, 43741>>, <<43744, 43759>>, <<43762, 43765>>, <<43777, 43782>>, <<43785, 43790>>,
    <<43793, 43798>>, <<43808, 43814>>, <<43816, 43822>>, <<43824, 43866>>, <<43868, 43881>>, <<43888, 44010>>,
    <<44032, 55203>>, <<55216, 55238>>, <<55243, 55291>>, <<63744, 64109>>, <<64112, 64217>>, <<64256, 64262>>,
    <<64275, 64279>>, <<64285, 64296>>, <<64298, 64310>>, <<64312, 64316>>, <<64318, 64318>>, <<64320, 64321>>,
    <<64323, 64324>>, <<64326, 64433>>, <<64467, 64829>>, <<64848, 64911>>, <<64914, 64967>>, <<65008, 65019>>,
    <<65136, 65140>>, <<65142, 65276>>, <<65313, 65338>>, <<65345, 65370>>, <<65382, 65470>>, <<65474, 65479>>,
    <<65482, 65487>>, <<65490, 65495>>, <<65498, 65500>>, <<65536, 65547>>, <<65549, 65574>>, <<65576, 65594>>,
    <<65596, 65597>>, <<65599, 65613>>, <<65616, 65629>>, <<65664, 65786>>, <<65856, 65908>>, <<66176, 66204>>,
    <<66208, 66256>>, <<66304, 66335>>, <<66349, 66378>>, <<66384, 66426>>, <<66432, 66461>>, <<66464, 66499>>,
    <<66504, 66511>>, <<66513, 66517>>, <<66560, 66717>>, <<66736, 66771>>, <<66776, 66811>>, <<66816, 66855>>,
    <<66864, 66915>>, <<66928, 66938>>, <<66940, 66954>>, <<66956, 66962>>, <<66964, 66965>>, <<66967, 66977>>,
    <<66979, 66993>>, <<66995, 67001>>, <<67003, 67004>>, <<67008, 67059>>, <<67072, 67382>>, <<67392, 67413>>,
    <<67424, 67431>>, <<67456, 67461>>, <<67463, 67504>>, <<67506, 67514>>, <<67584, 67589>>, <<67592, 67592>>,
    <<67594, 67637>>, <<67639, 67640>>, <<67644, 67644>>, <<67647, 67669>>, <<67680, 67702>>, <<67712, 67742>>,
    <<67808, 67826>>, <<67828, 67829>>, <<67840, 67861>>, <<67872, 67897>>, <<67904, 67929>>, <<67968, 68023>>,
    <<68030, 68031>>, <<68096, 68099>>, <<68101, 68102>>, <<68108, 68115>>, <<68117, 68119>>, <<68121, 68149>>,
    <<68192, 68220>>, <<68224, 68252>>, <<68288, 68295>>, <<68297, 68324>>, <<68352, 68405>>, <<68416, 68437>>,
    <<68448, 68466>>, <<68480, 68497>>, <<68608, 68680>>, <<68736, 68786>>, <<68800, 68850>>, <<68864, 68903>>,
    <<68938, 68965>>, <<68969, 68969>>, <<68975, 68997>>, <<69248, 69289>>, <<69291, 69292>>, <<69296, 69297>>,
    <<69314, 69319>>, <<69370, 69372>>, <<69376, 69404>>, <<69415, 69415>>, <<69424, 69445>>, <<69488, 69505>>,
    <<69552, 69572>>, <<69600, 69622>>, <<69632, 69701>>, <<69745, 69749>>, <<69760, 69816>>, <<69826, 69826>>,
    <<69840, 69864>>, <<69888, 69938>>, <<69956, 69959>>, <<69968, 70002>>, <<70006, 70006>>, <<70016, 70079>>,
    <<70081, 70084>>, <<70094, 70095>>, <<70106, 70106>>, <<70108, 70108>>, <<70144, 70161>>, <<70163, 70196>>,
    <<70199, 70199>>, <<70206, 70209>>, <<70272, 70278>>, <<70280, 70280>>, <<70282, 70285>>, <<70287, 70301>>,
    <<70303, 70312>>, <<70320, 70376>>, <<70400, 70403>>, <<70405, 70412>>, <<70415, 70416>>, <<70419, 70440>>,
    <<70442, 70448>>, <<70450, 70451>>, <<70453, 70457>>, <<70461, 70468>>, <<70471, 70472>>, <<70475, 70476>>,
    <<70480, 70480>>, <<70487, 70487>>, <<70493, 70499>>, <<70528, 70537>>, <<70539, 70539>>, <<70542, 70542>>,
    <<70544, 70581>>, <<70583, 70592>>, <<70594, 70594>>, <<70597, 70597>>, <<70599, 70602>>, <<70604, 70605>>,
    <<70609, 70609>>, <<70611, 70611>>, <<70656, 70721>>, <<70723, 70725>>, <<70727, 70730>>, <<70751, 70753>>,
    <<70784, 70849>>, <<70852, 70853>>, <<70855, 70855>>, <<71040, 71093>>, <<71096, 71102>>, <<71128, 71133>>,
    <<71168, 71230>>, <<71232, 71232>>, <<71236, 71236>>, <<71296, 71349>>, <<71352, 71352>>, <<71424, 71450>>,
    <<71453, 71466>>, <<71488, 71494>>, <<71680, 71736>>, <<71840, 71903>>, <<71935, 71942>>, <<71945, 71945>>,
    <<71948, 71955>>, <<71957, 71958>>, <<71960, 71989>>, <<71991, 71992>>, <<71995, 71996>>, <<71999, 72002>>,
    <<72096, 72103>>, <<72106, 72151>>, <<72154, 72159>>, <<72161, 72161>>, <<72163, 72164>>, <<72192, 72242>>,
    <<72245, 72254>>, <<72272, 72343>>, <<72349, 72349>>, <<72368, 72440>>, <<72544, 72551>>, <<72640, 72672>>,
    <<72704, 72712>>, <<72714, 72758>>, <<72760, 72766>>, <<72768, 72768>>, <<72818, 72847>>, <<72850, 72871>>,
    <<72873, 72886>>, <<72960, 72966>>, <<72968, 72969>>, <<72971, 73014>>, <<73018, 73018>>, <<73020, 73021>>,
    <<73023, 73025>>, <<73027, 73027>>, <<73030, 73031>>, <<73056, 73061>>, <<73063, 73064>>, <<73066, 73102>>,
    <<73104, 73105>>, <<73107, 73110>>, <<73112, 73112>>, <<73136, 73179>>, <<73440, 73462>>, <<73472, 73488>>,
    <<73490, 73530>>, <<73534, 73536>>, <<73648, 73648>>, <<73728, 74649>>, <<74752, 74862>>, <<74880, 75075>>,
    <<77712, 77808>>, <<77824, 78895>>, <<78913, 78918>>, <<78944, 82938>>, <<82944, 83526>>, <<90368, 90414>>,
    <<92160, 92728>>, <<92736, 92766>>, <<92784, 92862>>, <<92880, 92909>>, <<92928, 92975>>, <<92992, 92995>>,
    <<93027, 93047>>, <<93053, 93071>>, <<93504, 93548>>, <<93760, 93823>>, <<93856, 93880>>, <<93883, 93907>>,
    <<93952, 94026>>, <<94031, 94087>>, <<94095, 94111>>, <<94176, 94177>>, <<94179, 94179>>, <<94192, 94198>>,
    <<94208, 101589>>, <<101631, 101662>>, <<101760, 101874>>, <<110576, 110579>>, <<110581, 110587>>, <<110589, 110590>>,
    <<110592, 110882>>, <<110898, 110898>>, <<110928, 110930>>, <<110933, 110933>>, <<110948, 110951>>, <<110960, 111355>>,
    <<113664, 113770>>, <<113776, 113788>>, <<113792, 113800>>, <<113808, 113817>>, <<113822, 113822>>, <<119808, 119892>>,
    <<119894, 119964>>, <<119966, 119967>>, <<119970, 119970>>, <<119973, 119974>>, <<119977, 119980>>, <<119982, 119993>>,
    <<119995, 119995>>, <<119997, 120003>>, <<120005, 120069>>, <<120071, 120074>>, <<120077, 120084>>, <<120086, 120092>>,
    <<120094, 120121>>, <<120123, 120126>>, <<120128, 120132>>, <<120134, 120134>>, <<120138, 120144>>, <<120146, 120485>>,
    <<120488, 120512>>, <<120514, 120538>>, <<120540, 120570>>, <<120572, 120596>>, <<120598, 120628>>, <<120630, 120654>>,
    <<120656, 120686>>, <<120688, 120712>>, <<120714, 120744>>, <<120746, 120770>>, <<120772, 120779>>, <<122624, 122654>>,
    <<122661, 122666>>, <<122880, 122886>>, <<122888, 122904>>, <<122907, 122913>>, <<122915, 122916>>, <<122918, 122922>>,
    <<122928, 122989>>, <<123023, 123023>>, <<123136, 123180>>, <<123191, 123197>>, <<123214, 123214>>, <<123536, 123565>>,
    <<123584, 123627>>, <<124112, 124139>>, <<124368, 124397>>, <<124400, 124400>>, <<124608, 124638>>, <<124640, 124661>>,
    <<124670, 124671>>, <<124896, 124902>>, <<124904, 124907>>, <<124909, 124910>>, <<124912, 124926>>, <<124928, 125124>>,
    <<125184, 125251>>, <<125255, 125255>>, <<125259, 125259>>, <<126464, 126467>>, <<126469, 126495>>, <<126497, 126498>>,
    <<126500, 126500>>, <<126503, 126503>>, <<126505, 126514>>, <<126516, 126519>>, <<126521, 126521>>, <<126523, 126523>>,
    <<126530, 126530>>, <<126535, 126535>>, <<126537, 126537>>, <<126539, 126539>>, <<126541, 126543>>, <<126545, 126546>>,
    <<126548, 126548>>, <<126551, 126551>>, <<126553, 126553>>, <<126555, 126555>>, <<126557, 126557>>, <<126559, 126559>>,
    <<126561, 126562>>, <<126564, 126564>>, <<126567, 126570>>, <<126572, 126578>>, <<126580, 126583>>, <<126585, 126588>>,
    <<126590, 126590>>, <<126592, 126601>>, <<126603, 126619>>, <<126625, 126627>>, <<126629, 126633>>, <<126635, 126651>>,
    <<127280, 127305>>, <<127312, 127337>>, <<127344, 127369>>, <<131072, 173791>>, <<173824, 178205>>, <<178208, 183981>>,
    <<183984, 191456>>, <<191472, 192093>>, <<194560, 195101>>, <<196608, 201546>>, <<201552, 210041>>>>

\* The general categories Nd, Nl and No.
Numeric ==
    <<<<48, 57>>, <<178, 179>>, <<185, 185>>, <<188, 190>>, <<1632, 1641>>, <<1776, 1785>>,
    <<1984, 1993>>, <<2406, 2415>>, <<2534, 2543>>, <<2548, 2553>>, <<2662, 2671>>, <<2790, 2799>>,
    <<2918, 2927>>, <<2930, 2935>>, <<3046, 3058>>, <<3174, 3183>>, <<3192, 3198>>, <<3302, 3311>>,
    <<3416, 3422>>, <<3430, 3448>>, <<3558, 3567>>, <<3664, 3673>>, <<3792, 3801>>, <<3872, 3891>>,
    <<4160, 4169>>, <<4240, 4249>>, <<4969, 4988>>, <<5870, 5872>>, <<6112, 6121>>, <<6128, 6137>>,
    <<6160, 6169>>, <<6470, 6479>>, <<6608, 6618>>, <<6784, 6793>>, <<6800, 6809>>, <<6992, 7001>>,
    <<7088, 7097>>, <<7232, 7241>>, <<7248, 7257>>, <<8304, 8304>>, <<8308, 8313>>, <<8320, 8329>>,
    <<8528, 8578>>, <<8581, 8585>>, <<9312, 9371>>, <<9450, 9471>>, <<10102, 10131>>, <<11517, 11517>>,
    <<12295, 12295>>, <<12321, 12329>>, <<12344, 12346>>, <<12690, 12693>>, <<12832, 12841>>, <<12872, 12879>>,
    <<12881, 12895>>, <<12928, 12937>>, <<12977, 12991>>, <<42528, 42537>>, <<42726, 42735>>, <<43056, 43061>>,
    <<43216, 43225>>, <<43264, 43273>>, <<43472, 43481>>, <<43504, 43513>>, <<43600, 43609>>, <<44016, 44025>>,
    <<65296, 65305>>, <<65799, 65843>>, <<65856, 65912>>, <<65930, 65931>>, <<66273, 66299>>, <<66336, 66339>>,
    <<66369, 66369>>, <<66378, 66378>>, <<66513, 66517>>, <<66720, 66729>>, <<67672, 67679>>, <<67705, 67711>>,
    <<67751, 67759>>, <<67835, 67839>>, <<67862, 67867>>, <<68028, 68029>>, <<68032, 68047>>, <<68050, 68095>>,
    <<68160, 68168>>, <<68221, 68222>>, <<68253, 68255>>, <<68331, 68335>>, <<68440, 68447>>, <<68472, 68479>>,
    <<68521, 68527>>, <<68858, 68863>>, <<68912, 68921>>, <<68928, 68937>>, <<69216, 69246>>, <<69405, 69414>>,
    <<69457, 69460>>, <<69573, 69579>>, <<69714, 69743>>, <<69872, 69881>>, <<69942, 69951>>, <<70096, 70105>>,
    <<70113, 70132>>, <<70384, 70393>>, <<70736, 70745>>, <<70864, 70873>>, <<71248, 71257>>, <<71360, 71369>>,
    <<71376, 71395>>, <<71472, 71483>>, <<71904, 71922>>, <<72016, 72025>>, <<72688, 72697>>, <<72784, 72812>>,
    <<73040, 73049>>, <<73120, 73129>>, <<73184, 73193>>, <<73552, 73561>>, <<73664, 73684>>, <<74752, 74862>>,
    <<90416, 90425>>, <<92768, 92777>>, <<92864, 92873>>, <<93008, 93017>>, <<93019, 93025>>, <<93552, 93561>>,
    <<93824, 93846>>, <<94196, 94198>>, <<118000, 118009>>, <<119488, 119507>>, <<119520, 119539>>, <<119648, 119672>>,
    <<120782, 120831>>, <<123200, 123209>>, <<123632, 123641>>, <<124144, 124153>>, <<124401, 124410>>, <<125127, 125135>>,
    <<125264, 125273>>, <<126065, 126123>>, <<126125, 126127>>, <<126129, 126132>>, <<126209, 126253>>, <<126255, 126269>>,
    <<127232, 127244>>, <<130032, 130041>>>>

is_whitespace(c) == InRanges(CodePoint(c), White_Space, 1, Len(White_Space))
is_alphabetic(c) == InRanges(CodePoint(c), Alphabetic, 1, Len(Alphabetic))
is_numeric(c) == InRanges(CodePoint(c), Numeric, 1, Len(Numeric))
is_alphanumeric(c) == is_alphabetic(c) \/ is_numeric(c)
(***************************************************************************)
(* 64-bit arithmetic on four 16-bit limbs, least significant limb first.   *)
(***************************************************************************)
LimbBase == 2 ^ 16
Zero64 == <<0, 0, 0, 0>>

\* n * m + a for small m and a: the low 64 bits and what was carried out.
MulAdd64(n, m, a) ==
    LET t1 == n[1] * m + a
        t2 == n[2] * m + (t1 \div LimbBase)
        t3 == n[3] * m + (t2 \div LimbBase)
        t4 == n[4] * m + (t3 \div LimbBase)
    IN  [val |-> <<t1 % LimbBase, t2 % LimbBase, t3 % LimbBase, t4 % LimbBase>>,
         carry |-> t4 \div LimbBase]

\* The sign bit of the pattern read as an i64.
IsNegative64(n) == n[4] >= 32768

\* Two's complement negation (i64 `n *= -1`, wrapping).
Negate64(n) ==
    LET inv == <<65535 - n[1], 65535 - n[2], 65535 - n[3], 65535 - n[4]>>
    IN  MulAdd64(inv, 1, 1).val

(***************************************************************************)
(* The Lexer struct as a record, and its private helpers.                  *)
(***************************************************************************)
Position(i, r, c) == [index |-> i, row |-> r, col |-> c]
TextRange(s, e) == [start |-> s, end |-> e]
Token(tp, range) == [tp |-> tp, range |-> range]

\* TokenType: a kind and, for the kinds that carry one, a value.
TokenType(kind, val) == [kind |-> kind, val |-> val]
NoVal == <<>>

\* LexerError: the variant, its char (UnexpectedCharacter only) and its
\* position (start = end) or range.
LexerError(kind, ch, s, e) == [kind |-> kind, ch |-> ch, start |-> s, end |-> e]
NoErr == LexerError("None", None, Position(0, 0, 0), Position(0, 0, 0))

NumericType == {"Signed", "Unsigned", "Float"}

\* Lexer::new
NewLexer(cs, mode, checks) ==
    [chars |-> cs, default_numeric |-> mode, overflow_checks |-> checks,
     tokens |-> <<>>, index |-> 0, row |-> 0, col |-> 0,
     pc |-> "process", err |-> NoErr]

current(s) == IF s.index < Len(s.chars) THEN s.chars[s.index + 1] ELSE None
peek(s) == IF s.index + 1 < Len(s.chars) THEN s.chars[s.index + 2] ELSE None
increment(s) == [s EXCEPT !.index = @ + 1, !.col = @ + 1]
increment_row(s) == [s EXCEPT !.index = @ + 1, !.col = 0, !.row = @ + 1]
current_position(s) == Position(s.index, s.row, s.col)
remaining_length(s) == Len(s.chars) - s.index

\* Mutant of current_range: the range runs forward from the cursor.
current_range_FromCursor(s, lexeme_len) ==
    TextRange(Position(s.index, s.row, s.col),
              Position(s.index + lexeme_len, s.row, s.col + lexeme_len))

\* usize subtraction without overflow checks: 2^64 - k is written -k.
current_range(s, lexeme_len) ==
    TextRange(Position(s.index - lexeme_len, s.row, s.col - lexeme_len),
              Position(s.index, s.row, s.col))

\* `self.index - lexeme_len` or `self.col - lexeme_len` overflows.
RangeUnderflows(s, lexeme_len) == lexeme_len > s.index \/ lexeme_len > s.col

\* The ways a call of process ends.
ReturnOk(s) == [s EXCEPT !.pc = "ok"]
ReturnErr(s, e) == [s EXCEPT !.pc = "err", !.err = e]
Panic(s, why) == [s EXCEPT !.pc = "panic", !.err = LexerError(why, None, current_position(s), current_position(s))]

ErrAtPosition(s, kind, ch) ==
    ReturnErr(s, LexerError(kind, ch, current_position(s), current_position(s)))

\* Err(kind(self.current_range(lexeme_len)))
ErrCurrentRange(s, kind, lexeme_len) ==
    IF RangeUnderflows(s, lexeme_len) /\ s.overflow_checks
    THEN Panic(s, "attempt to subtract with overflow")
    ELSE LET r == current_range(s, lexeme_len)
         IN  ReturnErr(s, LexerError(kind, None, r.start, r.end))

\* self.tokens.push(self.new_token(tp, lexeme_len))
new_token(s, tp, lexeme_len) ==
    IF RangeUnderflows(s, lexeme_len) /\ s.overflow_checks
    THEN Panic(s, "attempt to subtract with overflow")
    ELSE [s EXCEPT !.tokens = Append(@, Token(tp, current_range(s, lexeme_len)))]

\* TextRange::string: the text of the file between start and end.
RangeString(cs, range) ==
    IF range.start.index >= 0 /\ range.start.index <= range.end.index
       /\ range.end.index <= Len(cs)
    THEN SubSeq(cs, range.start.index + 1, range.end.index)
    ELSE <<>>

(***************************************************************************)
(* Collaborators of the lexer that live outside lexer.rs.                  *)
(***************************************************************************)
\* Register as u8, as tests::test_registers pins it.
RSP == 0
RFP == 1
ROU == 2
RFL == 3
RRA == 4
RRB == 5
R0 == 6

RegisterFrom(n) == n

\* TokenType::match_identifier: the directive keywords.
match_identifier(str) ==
    CASE str = <<"r", "e", "p", "e", "a", "t">> -> "Repeat"
      [] str = <<"e", "n", "d", "_", "r", "e", "p", "e", "a", "t">> -> "EndRepeat"
      [] str = <<"i", "f">> -> "If"
      [] str = <<"e", "l", "s", "e">> -> "Else"
      [] str = <<"e", "n", "d", "i", "f">> -> "Endif"
      [] str = <<"i", "m", "p", "o", "r", "t">> -> "Import"
      [] str = <<"c", "o", "n", "s", "t">> -> "Constant"
      [] OTHER -> None

\* Instruction::from_string, on the mnemonics the tests name.
from_string(str) ==
    CASE str = <<"l", "d", "i">> -> [some |-> TRUE, code |-> 3]
      [] str = <<"c", "a", "l", "l">> -> [some |-> TRUE, code |-> 67]
      [] OTHER -> [some |-> FALSE, code |-> 0]

\* u64::from_str_radix(str, 16) on a string of hex digits: [ok, val].
RECURSIVE FromStrRadix16Loop(_, _, _)
FromStrRadix16Loop(str, i, n) ==
    IF i > Len(str) THEN [ok |-> TRUE, val |-> n]
    ELSE LET r == MulAdd64(n, 16, to_digit(str[i]))
         IN  IF r.carry # 0 THEN [ok |-> FALSE, val |-> Zero64]
             ELSE FromStrRadix16Loop(str, i + 1, r.val)

from_str_radix_16(str) ==
    IF str = <<>> THEN [ok |-> FALSE, val |-> Zero64]
    ELSE FromStrRadix16Loop(str, 1, Zero64)

(***************************************************************************)
(* The sub-parsers.  Each takes the lexer as the code finds it and gives   *)
(* the lexer as the code leaves it.                                        *)
(***************************************************************************)

\* consume_until_end_identifier (inside process_register): the lexer after
\* the loop; the position returned is its current position.
RECURSIVE consume_until_end_identifier(_)
consume_until_end_identifier(s) ==
    IF current(s) = None \/ ~is_alphanumeric(current(s)) THEN s
    ELSE consume_until_end_identifier(increment(s))

\* Mutant of InvalidRegister: the range ends at the cursor, the rest of the
\* identifier is not consumed.
InvalidRegister_NoConsume(s, starting_position) ==
    ReturnErr(s, LexerError("InvalidRegister", None, starting_position, current_position(s)))

\* Err(InvalidRegister(TextRange::new(starting_position,
\*                                    consume_until_end_identifier(self), ..)))
InvalidRegister(s, starting_position) ==
    LET t == consume_until_end_identifier(s)
    IN  ReturnErr(t, LexerError("InvalidRegister", None, starting_position, current_position(t)))

\* The macro len_3_reg!: `second` maps each admissible second letter to its
\* register.
len_3_reg(s, starting_position, second) ==
    LET s1 == increment(s)
    IN  IF current(s1) = None
        THEN ReturnErr(s1, LexerError("ExpectedRegisterFoundEOF", None,
                                      starting_position, starting_position))
        ELSE IF current(s1) \in DOMAIN second
        THEN new_token(increment(s1), TokenType("Register", second[current(s1)]), 3)
        ELSE InvalidRegister(s1, starting_position)

\* Mutant of RegisterDigit: the characters after the digit are consumed but
\* the register is pushed whatever follows.
RegisterDigit_NoBoundaryCheck(s, starting_position, c) ==
    LET s1 == increment(s)
        s2 == consume_until_end_identifier(s1)
    IN  new_token(s2, TokenType("Register", RegisterFrom(R0 + to_digit(c))), 2)

\* The digit arm of process_register.
RegisterDigit(s, starting_position, c) ==
    LET s1 == increment(s)
        reference == current_position(s1)
        s2 == consume_until_end_identifier(s1)
    IN  IF current_position(s2) # reference
        THEN ReturnErr(s2, LexerError("InvalidRegister", None,
                                      starting_position, current_position(s2)))
        ELSE new_token(s2, TokenType("Register", RegisterFrom(R0 + to_digit(c))), 2)

\* Mutant of process_register: `$rfl` gives the register of `$rfp`.
process_register_FlIsFp(s) ==
    LET starting_position == current_position(s)
    IN  IF remaining_length(s) = 0
        THEN ReturnErr(s, LexerError("ExpectedRegisterFoundEOF", None,
                                     starting_position, starting_position))
        ELSE IF remaining_length(s) < 2
        THEN InvalidRegister(s, starting_position)
        ELSE IF current(s) # "r"
        THEN InvalidRegister(s, starting_position)
        ELSE LET s1 == increment(s)
                 c == current(s1)
             IN  CASE c = "f" -> len_3_reg(s1, starting_position, [x \in {"p", "l"} |-> IF x = "p" THEN RFP ELSE RFP])
                   [] c = "s" -> len_3_reg(s1, starting_position, [x \in {"p"} |-> RSP])
                   [] c = "o" -> len_3_reg(s1, starting_position, [x \in {"u"} |-> ROU])
                   [] c = "r" -> len_3_reg(s1, starting_position, [x \in {"a", "b"} |-> IF x = "a" THEN RRA ELSE RRB])
                   [] OTHER -> IF is_digit(c, 10)
                               THEN RegisterDigit(s1, starting_position, c)
                               ELSE InvalidRegister(s1, starting_position)

\* Mutant of process_register: fewer than two characters left is an
\* end-of-input error.
process_register_ShortIsEof(s) ==
    LET starting_position == current_position(s)
    IN  IF remaining_length(s) = 0
        THEN ReturnErr(s, LexerError("ExpectedRegisterFoundEOF", None,
                                     starting_position, starting_position))
        ELSE IF remaining_length(s) < 2
        THEN ReturnErr(s, LexerError("ExpectedRegisterFoundEOF", None,
                                     starting_position, starting_position))
        ELSE IF current(s) # "r"
        THEN InvalidRegister(s, starting_position)
        ELSE LET s1 == increment(s)
                 c == current(s1)
             IN  CASE c = "f" -> len_3_reg(s1, starting_position, [x \in {"p", "l"} |-> IF x = "p" THEN RFP ELSE RFL])
                   [] c = "s" -> len_3_reg(s1, starting_position, [x \in {"p"} |-> RSP])
                   [] c = "o" -> len_3_reg(s1, starting_position, [x \in {"u"} |-> ROU])
                   [] c = "r" -> len_3_reg(s1, starting_position, [x \in {"a", "b"} |-> IF x = "a" THEN RRA ELSE RRB])
                   [] OTHER -> IF is_digit(c, 10)
                               THEN RegisterDigit(s1, starting_position, c)
                               ELSE InvalidRegister(s1, starting_position)

process_register(s) ==
    LET starting_position == current_position(s)
    IN  IF remaining_length(s) = 0
        THEN ReturnErr(s, LexerError("ExpectedRegisterFoundEOF", None,
                                     starting_position, starting_position))
        ELSE IF remaining_length(s) < 2
        THEN InvalidRegister(s, starting_position)
        ELSE IF current(s) # "r"
        THEN InvalidRegister(s, starting_position)
        ELSE LET s1 == increment(s)
                 c == current(s1)
             IN  CASE c = "f" -> len_3_reg(s1, starting_position, [x \in {"p", "l"} |-> IF x = "p" THEN RFP ELSE RFL])
                   [] c = "s" -> len_3_reg(s1, starting_position, [x \in {"p"} |-> RSP])
                   [] c = "o" -> len_3_reg(s1, starting_position, [x \in {"u"} |-> ROU])
                   [] c = "r" -> len_3_reg(s1, starting_position, [x \in {"a", "b"} |-> IF x = "a" THEN RRA ELSE RRB])
                   [] OTHER -> IF is_digit(c, 10)
                               THEN RegisterDigit(s1, starting_position, c)
                               ELSE InvalidRegister(s1, starting_position)

\* The loop of process_directive and process_identifier: the lexer after the
\* maximal run of alphabetic characters and `_`.
RECURSIVE ConsumeWord(_)
ConsumeWord(s) ==
    IF current(s) = None \/ (~is_alphabetic(current(s)) /\ current(s) # "_") THEN s
    ELSE ConsumeWord(increment(s))

\* Mutant of process_directive: an unknown directive is reported at the
\* cursor, not over the matched run.
process_directive_UnknownAtCursor(s) ==
    LET t == ConsumeWord(s)
        len == t.index - s.index
    IN  IF len = 0 THEN ErrAtPosition(t, "EmptyIdentifier", None)
        ELSE LET range == current_range(t, len)
                 identifier == match_identifier(RangeString(t.chars, range))
             IN  IF identifier # None
                 THEN [t EXCEPT !.tokens = Append(@, Token(TokenType(identifier, NoVal), range))]
                 ELSE ReturnErr(t, LexerError("UnknownDirective", None, range.end, range.end))

process_directive(s) ==
    LET t == ConsumeWord(s)
        len == t.index - s.index
    IN  IF len = 0 THEN ErrAtPosition(t, "EmptyIdentifier", None)
        ELSE IF RangeUnderflows(t, len) /\ t.overflow_checks
        THEN Panic(t, "attempt to subtract with overflow")
        ELSE LET range == current_range(t, len)
                 identifier == match_identifier(RangeString(t.chars, range))
             IN  IF identifier # None
                 THEN [t EXCEPT !.tokens = Append(@, Token(TokenType(identifier, NoVal), range))]
                 ELSE ReturnErr(t, LexerError("UnknownDirective", None, range.start, range.end))

\* Mutant of process_identifier: the mnemonic lookup is skipped.
process_identifier_NoLookup(s) ==
    LET t == ConsumeWord(s)
        len == t.index - s.index
    IN  IF len = 0 THEN ErrAtPosition(t, "EmptyIdentifier", None)
        ELSE new_token(t, TokenType("Identifier", NoVal), len)

process_identifier(s) ==
    LET t == ConsumeWord(s)
        len == t.index - s.index
        possible_opcode == \A i \in (s.index + 1)..t.index : s.chars[i] # "_"
    IN  IF len = 0 THEN ErrAtPosition(t, "EmptyIdentifier", None)
        ELSE IF possible_opcode /\ RangeUnderflows(t, len) /\ t.overflow_checks
        THEN Panic(t, "attempt to subtract with overflow")
        ELSE IF possible_opcode /\ from_string(RangeString(t.chars, current_range(t, len))).some
        THEN new_token(t, TokenType("Opcode", from_string(RangeString(t.chars, current_range(t, len))).code), len)
        ELSE new_token(t, TokenType("Identifier", NoVal), len)

\* The loop of process_hex: the lexer after the maximal run of hex digits.
RECURSIVE ConsumeHex(_)
ConsumeHex(s) ==
    IF current(s) # None /\ is_digit(current(s), 16) THEN ConsumeHex(increment(s)) ELSE s

\* Mutant of process_hex: a parse failure is read as zero.
process_hex_FailureIsZero(s) ==
    LET t == ConsumeHex(s)
        len == t.index - s.index
    IN  IF RangeUnderflows(t, len) /\ t.overflow_checks
        THEN Panic(t, "attempt to subtract with overflow")
        ELSE LET range == current_range(t, len)
                 parsed == from_str_radix_16(RangeString(t.chars, range))
             IN  IF parsed.ok
                 THEN [t EXCEPT !.tokens = Append(@, Token(TokenType("UnsignedIntegerLiteral", parsed.val), range))]
                 ELSE [t EXCEPT !.tokens = Append(@, Token(TokenType("UnsignedIntegerLiteral", Zero64), range))]

process_hex(s) ==
    LET t == ConsumeHex(s)
        len == t.index - s.index
    IN  IF RangeUnderflows(t, len) /\ t.overflow_checks
        THEN Panic(t, "attempt to subtract with overflow")
        ELSE LET range == current_range(t, len)
                 parsed == from_str_radix_16(RangeString(t.chars, range))
             IN  IF parsed.ok
                 THEN [t EXCEPT !.tokens = Append(@, Token(TokenType("UnsignedIntegerLiteral", parsed.val), range))]
                 ELSE ReturnErr(t, LexerError("InvalidHexLiteral", None, range.start, range.end))

\* Mutant of BinaryLoop: `n |= digit` without `n <<= 1`.
RECURSIVE BinaryLoop_NoShift(_, _, _)
BinaryLoop_NoShift(s, n, len) ==
    IF current(s) # None /\ is_digit(current(s), 2)
    THEN LET c == current(s)
             s1 == increment(s)
         IN  IF len = 64
             THEN ErrCurrentRange(s1, "InvalidBinaryLiteral", len)
             ELSE IF n = Zero64
             THEN BinaryLoop_NoShift(s1, MulAdd64(Zero64, 1, to_digit(c)).val, len + 1)
             ELSE BinaryLoop_NoShift(s1, (IF n[1] % 2 = 1 THEN n ELSE MulAdd64(n, 1, to_digit(c)).val), len + 1)
    ELSE new_token(s, TokenType("UnsignedIntegerLiteral", n), len)

\* Mutant of BinaryLoop: the error range counts the 65th digit too.
RECURSIVE BinaryLoop_ErrLenPlusOne(_, _, _)
BinaryLoop_ErrLenPlusOne(s, n, len) ==
    IF current(s) # None /\ is_digit(current(s), 2)
    THEN LET c == current(s)
             s1 == increment(s)
         IN  IF len = 64
             THEN ErrCurrentRange(s1, "InvalidBinaryLiteral", len + 1)
             ELSE IF n = Zero64
             THEN BinaryLoop_ErrLenPlusOne(s1, MulAdd64(Zero64, 1, to_digit(c)).val, len + 1)
             ELSE BinaryLoop_ErrLenPlusOne(s1, MulAdd64(n, 2, to_digit(c)).val, len + 1)
    ELSE new_token(s, TokenType("UnsignedIntegerLiteral", n), len)

\* The loop of process_binary, one call per iteration, and what follows it.
RECURSIVE BinaryLoop(_, _, _)
BinaryLoop(s, n, len) ==
    IF current(s) # None /\ is_digit(current(s), 2)
    THEN LET c == current(s)
             s1 == increment(s)
         IN  IF len = 64
             THEN ErrCurrentRange(s1, "InvalidBinaryLiteral", len)
             ELSE IF n = Zero64
             THEN BinaryLoop(s1, MulAdd64(Zero64, 1, to_digit(c)).val, len + 1)
             ELSE BinaryLoop(s1, MulAdd64(n, 2, to_digit(c)).val, len + 1)
    ELSE new_token(s, TokenType("UnsignedIntegerLiteral", n), len)

process_binary(s) == BinaryLoop(s, Zero64, 0)

\* process_float: todo!()
process_float(s) == Panic(s, "not yet implemented")

\* `n *= 10` on an i64 overflows.
SignedMul10Overflows(n) ==
    IF IsNegative64(n)
    THEN LET m == MulAdd64(Negate64(n), 10, 0)
         IN  m.carry # 0 \/ m.val[4] > 32768
             \/ (m.val[4] = 32768 /\ (m.val[1] # 0 \/ m.val[2] # 0 \/ m.val[3] # 0))
    ELSE LET m == MulAdd64(n, 10, 0)
         IN  m.carry # 0 \/ IsNegative64(m.val)

\* i64::checked_add(n, d) for a digit d is None.
SignedAddOverflows(n, d) == ~IsNegative64(n) /\ IsNegative64(MulAdd64(n, 1, d).val)

\* The digit loop of process_signed, one call per iteration, and what
\* follows it.
RECURSIVE SignedLoop(_, _, _, _)
SignedLoop(s, n, len, negative) ==
    IF current(s) # None /\ is_digit(current(s), 10)
    THEN LET d == to_digit(current(s))
         IN  IF n = Zero64
             THEN SignedLoop(increment(s), MulAdd64(Zero64, 1, d).val, len + 1, negative)
             ELSE IF SignedMul10Overflows(n) /\ s.overflow_checks
             THEN Panic(s, "attempt to multiply with overflow")
             ELSE LET m == MulAdd64(n, 10, 0).val
                  IN  IF SignedAddOverflows(m, d)
                      THEN ErrCurrentRange(s, "InvalidSignedIntegerLiteral", len + 1)
                      ELSE SignedLoop(increment(s), MulAdd64(m, 1, d).val, len + 1, negative)
    ELSE IF len = 0
    THEN ReturnErr(s, LexerError("InvalidSignedIntegerLiteral", None,
                                 current_position(s), current_position(s)))
    ELSE IF negative /\ n = <<0, 0, 0, 32768>> /\ s.overflow_checks
    THEN Panic(s, "attempt to multiply with overflow")
    ELSE new_token(s, TokenType("SignedIntegerLiteral", IF negative THEN Negate64(n) ELSE n), len)

process_signed(s) ==
    IF current(s) = "-"
    THEN SignedLoop(increment(s), Zero64, 1, TRUE)
    ELSE SignedLoop(s, Zero64, 0, FALSE)

\* Mutant of UnsignedLoop: the sum is checked against the i64 range.
RECURSIVE UnsignedLoop_SignedAdd(_, _, _)
UnsignedLoop_SignedAdd(s, n, len) ==
    IF current(s) # None /\ is_digit(current(s), 10)
    THEN LET d == to_digit(current(s))
         IN  IF n = Zero64
             THEN UnsignedLoop_SignedAdd(increment(s), MulAdd64(Zero64, 1, d).val, len + 1)
             ELSE IF MulAdd64(n, 10, 0).carry # 0 /\ s.overflow_checks
             THEN Panic(s, "attempt to multiply with overflow")
             ELSE LET m == MulAdd64(n, 10, 0).val
                  IN  IF MulAdd64(m, 1, d).carry # 0 \/ IsNegative64(MulAdd64(m, 1, d).val)
                      THEN ErrCurrentRange(s, "InvalidUnsignedIntegerLiteral", len + 1)
                      ELSE UnsignedLoop_SignedAdd(increment(s), MulAdd64(m, 1, d).val, len + 1)
    ELSE IF len = 0
    THEN ReturnErr(s, LexerError("InvalidSignedIntegerLiteral", None,
                                 current_position(s), current_position(s)))
    ELSE new_token(s, TokenType("UnsignedIntegerLiteral", n), len)

\* Mutant of UnsignedLoop: a literal without digits is reported with the
\* unsigned error kind.
RECURSIVE UnsignedLoop_ZeroIsUnsignedKind(_, _, _)
UnsignedLoop_ZeroIsUnsignedKind(s, n, len) ==
    IF current(s) # None /\ is_digit(current(s), 10)
    THEN LET d == to_digit(current(s))
         IN  IF n = Zero64
             THEN UnsignedLoop_ZeroIsUnsignedKind(increment(s), MulAdd64(Zero64, 1, d).val, len + 1)
             ELSE IF MulAdd64(n, 10, 0).carry # 0 /\ s.overflow_checks
             THEN Panic(s, "attempt to multiply with overflow")
             ELSE LET m == MulAdd64(n, 10, 0).val
                  IN  IF MulAdd64(m, 1, d).carry # 0
                      THEN ErrCurrentRange(s, "InvalidUnsignedIntegerLiteral", len + 1)
                      ELSE UnsignedLoop_ZeroIsUnsignedKind(increment(s), MulAdd64(m, 1, d).val, len + 1)
    ELSE IF len = 0
    THEN ReturnErr(s, LexerError("InvalidUnsignedIntegerLiteral", None,
                                 current_position(s), current_position(s)))
    ELSE new_token(s, TokenType("UnsignedIntegerLiteral", n), len)

\* The digit loop of process_unsigned, one call per iteration, and what
\* follows it.
RECURSIVE UnsignedLoop(_, _, _)
UnsignedLoop(s, n, len) ==
    IF current(s) # None /\ is_digit(current(s), 10)
    THEN LET d == to_digit(current(s))
         IN  IF n = Zero64
             THEN UnsignedLoop(increment(s), MulAdd64(Zero64, 1, d).val, len + 1)
             ELSE IF MulAdd64(n, 10, 0).carry # 0 /\ s.overflow_checks
             THEN Panic(s, "attempt to multiply with overflow")
             ELSE LET m == MulAdd64(n, 10, 0).val
                  IN  IF MulAdd64(m, 1, d).carry # 0
                      THEN ErrCurrentRange(s, "InvalidUnsignedIntegerLiteral", len + 1)
                      ELSE UnsignedLoop(increment(s), MulAdd64(m, 1, d).val, len + 1)
    ELSE IF len = 0
    THEN ReturnErr(s, LexerError("InvalidSignedIntegerLiteral", None,
                                 current_position(s), current_position(s)))
    ELSE new_token(s, TokenType("UnsignedIntegerLiteral", n), len)

process_unsigned(s) == UnsignedLoop(s, Zero64, 0)

\* Mutant of process_default_numeric: under Unsigned a `-` falls back to
\* signed parsing.
process_default_numeric_MinusIsSigned(s) ==
    CASE s.default_numeric = "Signed" -> process_signed(s)
      [] s.default_numeric = "Unsigned" ->
            IF current(s) = "-"
            THEN process_signed(s)
            ELSE process_unsigned(s)
      [] s.default_numeric = "Float" -> process_float(s)

process_default_numeric(s) ==
    CASE s.default_numeric = "Signed" -> process_signed(s)
      [] s.default_numeric = "Unsigned" ->
            IF current(s) = "-"
            THEN ErrAtPosition(s, "UnexpectedCharacter", "-")
            ELSE process_unsigned(s)
      [] s.default_numeric = "Float" -> process_float(s)

(***************************************************************************)
(* Lexer::process: which arm of the `match` the driver loop takes, and     *)
(* what each arm does.                                                     *)
(***************************************************************************)
Dispatch(s) ==
    LET c == current(s)
    IN  CASE c = None -> "Finish"
          [] c = "\n" -> "Newline"
          [] c = "%" -> "Directive"
          [] c = "#" -> "Comment"
          [] c = "," -> "Comma"
          [] c = ":" -> "Colon"
          [] c = "$" -> "Register"
          [] c = "0" -> (CASE peek(s) = "x" -> "Hex"
                           [] peek(s) = "b" -> "Binary"
                           [] peek(s) = "i" -> "SignedPrefix"
                           [] peek(s) = "u" -> "UnsignedPrefix"
                           [] peek(s) = "f" -> "FloatPrefix"
                           [] OTHER -> "ZeroDefaultNumeric")
          [] OTHER -> IF is_whitespace(c) THEN "Whitespace"
                      ELSE IF is_alphabetic(c) \/ c = "_" THEN "Identifier"
                      ELSE IF is_digit(c, 10) \/ c = "-" THEN "DefaultNumeric"
                      ELSE "UnexpectedCharacter"

ArmFinish(s) == ReturnOk(s)
ArmNewline(s) == increment_row(s)
ArmDirective(s) == process_directive(increment(s))
ArmComment(s) == [increment(s) EXCEPT !.pc = "comment"]
\* Mutant of the `,` arm: the token is pushed before the increment.
ArmComma_PushBeforeIncrement(s) == increment(new_token(s, TokenType("Comma", NoVal), 1))
ArmComma(s) == new_token(increment(s), TokenType("Comma", NoVal), 1)
ArmColon(s) == new_token(increment(s), TokenType("Colon", NoVal), 1)
ArmRegister(s) == process_register(increment(s))
ArmHex(s) == process_hex(increment(increment(s)))
ArmBinary(s) == process_binary(increment(increment(s)))
ArmSignedPrefix(s) == process_signed(increment(increment(s)))
ArmUnsignedPrefix(s) == process_unsigned(increment(increment(s)))
ArmFloatPrefix(s) == process_float(increment(increment(s)))
ArmZeroDefaultNumeric(s) == process_default_numeric(s)
ArmWhitespace(s) == increment(s)
ArmIdentifier(s) == process_identifier(s)
ArmDefaultNumeric(s) == process_default_numeric(s)
ArmUnexpectedCharacter(s) == ErrAtPosition(s, "UnexpectedCharacter", current(s))

\* One iteration of the inner `while let` of the `#` arm: the loop ends at
\* the end of input, advances over a character that is not a newline, and
\* does nothing on a newline.
\* Mutant of CommentIteration: the loop advances over a newline too.
CommentIteration_ConsumesNewline(s) ==
    IF current(s) = None THEN [s EXCEPT !.pc = "process"]
    ELSE increment(s)

CommentIteration(s) ==
    IF current(s) = None THEN [s EXCEPT !.pc = "process"]
    ELSE IF current(s) # "\n" THEN increment(s)
    ELSE s

\* One step of process as a function of the lexer.
Step(s) ==
    IF s.pc = "comment" THEN CommentIteration(s)
    ELSE LET a == Dispatch(s)
         IN  CASE a = "Finish" -> ArmFinish(s)
               [] a = "Newline" -> ArmNewline(s)
               [] a = "Directive" -> ArmDirective(s)
               [] a = "Comment" -> ArmComment(s)
               [] a = "Comma" -> ArmComma(s)
               [] a = "Colon" -> ArmColon(s)
               [] a = "Register" -> ArmRegister(s)
               [] a = "Hex" -> ArmHex(s)
               [] a = "Binary" -> ArmBinary(s)
               [] a = "SignedPrefix" -> ArmSignedPrefix(s)
               [] a = "UnsignedPrefix" -> ArmUnsignedPrefix(s)
               [] a = "FloatPrefix" -> ArmFloatPrefix(s)
               [] a = "ZeroDefaultNumeric" -> ArmZeroDefaultNumeric(s)
               [] a = "Whitespace" -> ArmWhitespace(s)
               [] a = "Identifier" -> ArmIdentifier(s)
               [] a = "DefaultNumeric" -> ArmDefaultNumeric(s)
               [] a = "UnexpectedCharacter" -> ArmUnexpectedCharacter(s)

\* process run until it returns or panics, or until a step changes nothing
\* (the loop then never ends); `fuel` bounds the number of steps.
RECURSIVE Run(_, _)
Run(s, fuel) ==
    IF s.pc \in {"ok", "err", "panic"} \/ fuel = 0 THEN s
    ELSE LET t == Step(s)
         IN  IF t = s THEN s ELSE Run(t, fuel - 1)

\* Lexer::new followed by process, on an input of its own.
Lex(cs, mode, checks) == Run(NewLexer(cs, mode, checks), 2 * Len(cs) + 2)

(***************************************************************************)
(* The inputs.                                                             *)
(***************************************************************************)
Rep(c, k) == [i \in 1..k |-> c]

Registers ==
    {<<"$", "r", "s", "p">>,
    <<"$", "r", "f", "p">>,
    <<"$", "r", "o", "u">>,
    <<"$", "r", "f", "l">>,
    <<"$", "r", "r", "a">>,
    <<"$", "r", "r", "b">>,
    <<"$", "r", "0">>,
    <<"$", "r", "1">>,
    <<"$", "r", "2">>,
    <<"$", "r", "3">>,
    <<"$", "r", "4">>,
    <<"$", "r", "5">>,
    <<"$", "r", "6">>,
    <<"$", "r", "7">>,
    <<"$", "r", "8">>,
    <<"$", "r", "9">>}

MalformedRegisters ==
    {<<"$">>,
    <<"$", "r">>,
    <<"$", "r", "s">>,
    <<"$", "r", "x">>,
    <<"$", "r", "s", "x">>,
    <<"$", "x">>,
    <<"$", "r", "1", "0">>,
    <<"$", "r", "0", "a">>,
    <<"$", "r", "s", "p", "x">>,
    <<"$", "1">>,
    <<"$", "r", "f">>}

Directives ==
    {<<"%", "r", "e", "p", "e", "a", "t">>,
    <<"%", "e", "n", "d", "_", "r", "e", "p", "e", "a", "t">>,
    <<"%", "i", "f">>,
    <<"%", "e", "l", "s", "e">>,
    <<"%", "e", "n", "d", "i", "f">>,
    <<"%", "i", "m", "p", "o", "r", "t">>,
    <<"%", "c", "o", "n", "s", "t">>,
    <<"%", "b", "o", "g", "u", "s">>,
    <<"%">>,
    <<"%", "_">>}

Words ==
    {<<"l", "d", "i">>,
    <<"c", "a", "l", "l">>,
    <<"M", "A", "I", "N">>,
    <<"a", "_", "b">>,
    <<"l", "d", "i", "_">>,
    <<"c", "a", "l", "l", " ", "M", "A", "I", "N">>,
    <<"x">>}

Punctuation ==
    {<<>>,
    <<",">>,
    <<":">>,
    <<" ">>,
    <<"\t">>,
    <<"!">>,
    <<"-">>,
    <<"_">>,
    <<"#">>,
    <<"#", "a">>,
    <<"#", "$", "$">>,
    <<"\n">>}

Numbers ==
    {<<"0">>,
    <<"5", "2">>,
    <<"0", "0", "7">>,
    <<"-", "5">>,
    <<"-">>,
    <<"0", "u">>,
    <<"0", "u", "5", "2">>,
    <<"0", "u", "0">>,
    <<"0", "i">>,
    <<"0", "i", "-">>,
    <<"0", "i", "-", "1", "2", "3">>,
    <<"0", "i", "7">>,
    <<"0", "f">>,
    <<"0", "f", "1">>,
    <<"0", "x", "2", "a", "b", "c", "d", "e", "f">>,
    <<"0", "b", "0", "1", "1", "0", "0", "1", "1", "0">>,
    <<"0", "b", "1", "1", "1", "0", "0", "1", "1", "0", "0", "1", "1", "0", "0", "1", "1", "0", "0", "1", "1", "0", "0", "1", "1", "0", "0", "1", "1", "0", "0", "1", "1", "0", "0", "1", "1", "0", "0", "1", "1", "0", "0", "1", "1", "0", "0", "1", "1", "0", "0", "1", "1", "0", "0", "1", "1", "0", "0", "1", "1", "0", "0", "1", "1", "0">>,
    <<"0", "b", "1", "1", "1", "0", "0", "1", "1", "0", "0", "1", "1", "0", "0", "1", "1", "0", "0", "1", "1", "0", "0", "1", "1", "0", "0", "1", "1", "0", "0", "1", "1", "0", "0", "1", "1", "0", "0", "1", "1", "0", "0", "1", "1", "0", "0", "1", "1", "0", "0", "1", "1", "0", "0", "1", "1", "0", "0", "1", "1", "0", "0", "1", "1", "0", "1">>}

BoundaryNumbers ==
    {<<"1", "8", "4", "4", "6", "7", "4", "4", "0", "7", "3", "7", "0", "9", "5", "5", "1", "6", "1", "5">>,
    <<"1", "8", "4", "4", "6", "7", "4", "4", "0", "7", "3", "7", "0", "9", "5", "5", "1", "6", "1", "6">>,
    <<"1", "8", "4", "4", "6", "7", "4", "4", "0", "7", "3", "7", "0", "9", "5", "5", "1", "6", "1", "9">>,
    <<"1", "8", "4", "4", "6", "7", "4", "4", "0", "7", "3", "7", "0", "9", "5", "5", "1", "6", "1", "0">>,
    <<"0", "9", "9", "9", "9", "9", "9", "9", "9", "9", "9", "9", "9", "9", "9", "9", "9", "9", "9", "9">>,
    <<"9", "9", "9", "9", "9", "9", "9", "9", "9", "9", "9", "9", "9", "9", "9", "9", "9", "9", "9", "9">>,
    <<"1", "8", "4", "4", "6", "7", "4", "4", "0", "7", "3", "7", "0", "9", "5", "5", "1", "6", "2">>,
    <<"2", "7", "6", "7", "0", "1", "1", "6", "1", "1", "0", "5", "6", "4", "3", "2", "7", "4", "2", "4">>,
    <<"9", "2", "2", "3", "3", "7", "2", "0", "3", "6", "8", "5", "4", "7", "7", "5", "8", "0", "7">>,
    <<"9", "2", "2", "3", "3", "7", "2", "0", "3", "6", "8", "5", "4", "7", "7", "5", "8", "0", "8">>,
    <<"9", "2", "2", "3", "3", "7", "2", "0", "3", "6", "8", "5", "4", "7", "7", "5", "8", "1", "0">>,
    <<"-", "9", "2", "2", "3", "3", "7", "2", "0", "3", "6", "8", "5", "4", "7", "7", "5", "8", "0", "8">>,
    <<"-", "9", "2", "2", "3", "3", "7", "2", "0", "3", "6", "8", "5", "4", "7", "7", "5", "8", "0", "9">>,
    <<"0", "x", "f", "f", "f", "f", "f", "f", "f", "f", "f", "f", "f", "f", "f", "f", "f", "f">>,
    <<"0", "x", "1", "0", "0", "0", "0", "0", "0", "0", "0", "0", "0", "0", "0", "0", "0", "0", "0">>,
    <<"0", "x", "0", "0", "0", "0", "0", "0", "0", "0", "0", "0", "0", "0", "0", "0", "0", "0", "1">>,
    <<"0", "x", "F", "F", "F", "F", "F", "F", "F", "F", "F", "F", "F", "F", "F", "F", "F", "F", "F">>,
    <<"0", "x", "1", "2", "3", "4", "5", "6", "7", "8", "9", "a", "b", "c", "d", "e", "f", "0">>}

DecimalRuns == {Rep(d, k) : d \in {"0", "1", "9"}, k \in 1..MaxDecRun}
TwoDigits == {<<a, b>> : a \in DecDigits, b \in DecDigits}
HexRuns == {<<"0", "x">> \o Rep(d, k) : d \in {"0", "1", "f", "A"}, k \in 0..MaxHexRun}
BinaryRuns == {<<"0", "b">> \o Rep(d, k) : d \in {"0", "1"}, k \in 0..MaxBinRun}
    \cup {<<"0", "b">> \o Rep("0", k) \o <<"1", "0", "1">> : k \in 0..(MaxBinRun - 3)}

\* Inputs with characters outside ASCII, and the ASCII white space that has
\* no arm of its own: white space (U+000B, U+0085, U+00A0, U+1680, U+2028,
\* U+3000), letters (U+00E9, U+00C9, U+00AA, U+03B1, U+05D0, U+02BC),
\* numerics that are no digits (U+00B2, U+0660, U+10D40), the combining
\* letter U+0363 and the letters U+1E6E3 and U+16FF4 (the last one also a
\* numeric), which are alphabetic, and U+00D7, which is none of these.
BeyondAscii ==
    {<<"\f">>, <<"\r">>, <<"U+000B">>, <<"U+0085">>, <<"U+00A0">>, <<"U+1680">>,
    <<"U+2028">>, <<"a", "U+3000", ",">>,
    <<"U+00E9">>, <<"U+00C9", "a">>, <<"l", "d", "i", "U+00E9">>, <<"U+03B1", "_", "U+00AA">>,
    <<"U+05D0">>, <<"U+02BC">>,
    <<"U+00B2">>, <<"U+00D7">>, <<"a", "U+00B2">>, <<"U+0660">>,
    <<"$", "U+00E9">>, <<"$", "r", "U+03B1">>, <<"$", "r", "0", "U+03B1">>,
    <<"$", "r", "0", "U+00B2">>, <<"$", "r", "0", "U+0660">>,
    <<"$", "r", "s", "U+00E9">>, <<"$", "r", "s", "p", "U+00E9">>, <<"$", "r", "0", "U+00D7">>,
    <<"%", "U+00E9">>, <<"%", "i", "f", "U+03B1">>, <<"%", "U+00D7">>,
    <<"5", "2", "U+00B2">>, <<"5", "2", "U+0660">>, <<"0", "x", "1", "U+00E9">>,
    <<"U+0363">>, <<"l", "d", "i", "U+0363">>, <<"%", "i", "f", "U+0363">>,
    <<"$", "r", "0", "U+0363">>, <<"U+10D40">>, <<"$", "r", "0", "U+10D40">>,
    <<"$", "x", "U+10D40">>, <<"$", "r", "s", "p", "U+10D40">>,
    <<"U+1E6E3">>, <<"a", "U+16FF4">>}

ShortCores == Registers \cup MalformedRegisters \cup Directives \cup Words
              \cup Punctuation \cup Numbers \cup BeyondAscii
LongCores == BoundaryNumbers \cup DecimalRuns \cup TwoDigits \cup HexRuns \cup BinaryRuns

Prefixes == {<<>>, <<" ">>, <<"\n">>, <<"a", ",">>}
Suffixes == {<<>>, <<" ">>, <<"\n">>, <<",">>, <<"x">>, <<"1">>, <<"#", "c", "\n">>, <<"U+03B1">>}

Inputs == {p \o c \o x : p \in Prefixes, c \in ShortCores, x \in Suffixes}
          \cup {p \o c \o x : p \in {<<>>, <<" ">>}, c \in LongCores, x \in {<<>>, <<",">>}}

(***************************************************************************)
(* The state machine.                                                      *)
(***************************************************************************)
Self ==
    [chars |-> chars, default_numeric |-> default_numeric,
     overflow_checks |-> overflow_checks, tokens |-> tokens,
     index |-> index, row |-> row, col |-> col, pc |-> pc, err |-> err]

Become(t) ==
    /\ tokens' = t.tokens
    /\ index' = t.index
    /\ row' = t.row
    /\ col' = t.col
    /\ pc' = t.pc
    /\ err' = t.err
    /\ UNCHANGED <<chars, default_numeric, overflow_checks>>

Init ==
    /\ chars \in Inputs
    /\ default_numeric \in NumericType
    /\ overflow_checks \in BOOLEAN
    /\ tokens = <<>>
    /\ index = 0
    /\ row = 0
    /\ col = 0
    /\ pc = "process"
    /\ err = NoErr
    /\ spins = 0

Takes(a) == pc = "process" /\ Dispatch(Self) = a

Finish == Takes("Finish") /\ Become(ArmFinish(Self)) /\ UNCHANGED spins
Newline == Takes("Newline") /\ Become(ArmNewline(Self)) /\ UNCHANGED spins
Directive == Takes("Directive") /\ Become(ArmDirective(Self)) /\ UNCHANGED spins
Comment == Takes("Comment") /\ Become(ArmComment(Self)) /\ UNCHANGED spins
Comma == Takes("Comma") /\ Become(ArmComma(Self)) /\ UNCHANGED spins
Colon == Takes("Colon") /\ Become(ArmColon(Self)) /\ UNCHANGED spins
Register == Takes("Register") /\ Become(ArmRegister(Self)) /\ UNCHANGED spins
Hex == Takes("Hex") /\ Become(ArmHex(Self)) /\ UNCHANGED spins
Binary == Takes("Binary") /\ Become(ArmBinary(Self)) /\ UNCHANGED spins
SignedPrefix == Takes("SignedPrefix") /\ Become(ArmSignedPrefix(Self)) /\ UNCHANGED spins
UnsignedPrefix == Takes("UnsignedPrefix") /\ Become(ArmUnsignedPrefix(Self)) /\ UNCHANGED spins
FloatPrefix == Takes("FloatPrefix") /\ Become(ArmFloatPrefix(Self)) /\ UNCHANGED spins
ZeroDefaultNumeric == Takes("ZeroDefaultNumeric") /\ Become(ArmZeroDefaultNumeric(Self)) /\ UNCHANGED spins
Whitespace == Takes("Whitespace") /\ Become(ArmWhitespace(Self)) /\ UNCHANGED spins
Identifier == Takes("Identifier") /\ Become(ArmIdentifier(Self)) /\ UNCHANGED spins
DefaultNumeric == Takes("DefaultNumeric") /\ Become(ArmDefaultNumeric(Self)) /\ UNCHANGED spins
UnexpectedCharacter == Takes("UnexpectedCharacter") /\ Become(ArmUnexpectedCharacter(Self)) /\ UNCHANGED spins

\* spins counts the iterations of the comment loop that changed nothing.
CommentLoop ==
    /\ pc = "comment"
    /\ spins < MaxSpin
    /\ Become(CommentIteration(Self))
    /\ spins' = IF CommentIteration(Self) = Self THEN spins + 1 ELSE spins

Next ==
    \/ Finish
    \/ Newline
    \/ Directive
    \/ Comment
    \/ CommentLoop
    \/ Comma
    \/ Colon
    \/ Register
    \/ Hex
    \/ Binary
    \/ SignedPrefix
    \/ UnsignedPrefix
    \/ FloatPrefix
    \/ ZeroDefaultNumeric
    \/ Whitespace
    \/ Identifier
    \/ DefaultNumeric
    \/ UnexpectedCharacter

Spec == Init /\ [][Next]_vars

TypeOK ==
    /\ pc \in {"process", "comment", "ok", "err", "panic"}
    /\ index \in 0..Len(chars)
    /\ spins \in 0..MaxSpin

(***************************************************************************)
(* Reference definitions for the properties: what a literal denotes, read  *)
(* from its text and not from the lexer's accumulation.                    *)
(***************************************************************************)
\* The offset at which the maximal run of characters of S that starts at
\* offset i ends.
RECURSIVE RunEnd(_, _, _)
RunEnd(cs, i, S) == IF i < Len(cs) /\ cs[i + 1] \in S THEN RunEnd(cs, i + 1, S) ELSE i

MaximalRun(cs, from, S) == SubSeq(cs, from + 1, RunEnd(cs, from, S))

\* The alphabetic and the alphanumeric characters that occur in the input.
Letters == {chars[i] : i \in {j \in 1..Len(chars) : is_alphabetic(chars[j])}}
Alphanumerics == {chars[i] : i \in {j \in 1..Len(chars) : is_alphanumeric(chars[j])}}

RECURSIVE StripZeros(_)
StripZeros(str) == IF str # <<>> /\ str[1] = "0" THEN StripZeros(Tail(str)) ELSE str

\* a > b for digit strings of the same length.
RECURSIVE DigitsGreater(_, _)
DigitsGreater(a, b) ==
    IF a = <<>> THEN FALSE
    ELSE IF to_digit(a[1]) # to_digit(b[1]) THEN to_digit(a[1]) > to_digit(b[1])
    ELSE DigitsGreater(Tail(a), Tail(b))

\* 2^64 - 1 in decimal.
U64MaxDecimal == <<"1", "8", "4", "4", "6", "7", "4", "4", "0", "7", "3", "7", "0", "9", "5", "5", "1", "6", "1", "5">>

\* The decimal string D denotes a value above 2^64 - 1.
DecimalExceedsU64(D) ==
    LET d == StripZeros(D)
    IN  Len(d) > Len(U64MaxDecimal)
        \/ (Len(d) = Len(U64MaxDecimal) /\ DigitsGreater(d, U64MaxDecimal))

\* The decimal numeral of a 64-bit pattern read as unsigned (long division
\* by ten), without leading zeros; the empty string for zero.
RECURSIVE DecimalOf(_)
DecimalOf(n) ==
    IF n = Zero64 THEN <<>>
    ELSE LET c4 == n[4]
             c3 == (c4 % 10) * LimbBase + n[3]
             c2 == (c3 % 10) * LimbBase + n[2]
             c1 == (c2 % 10) * LimbBase + n[1]
             digit == CHOOSE c \in DecDigits : to_digit(c) = c1 % 10
         IN  Append(DecimalOf(<<c1 \div 10, c2 \div 10, c3 \div 10, c4 \div 10>>), digit)

\* The value of a numeral of at most 64 / log2(radix) digits, limb by limb.
RECURSIVE NumeralValue(_, _)
NumeralValue(str, radix) ==
    IF str = <<>> THEN 0 ELSE NumeralValue(SubSeq(str, 1, Len(str) - 1), radix) * radix + to_digit(str[Len(str)])

PositionalValue(str, radix, perLimb) ==
    LET padded == Rep("0", 4 * perLimb - Len(str)) \o str
    IN  [k \in 1..4 |-> NumeralValue(SubSeq(padded, (4 - k) * perLimb + 1, (5 - k) * perLimb), radix)]

HexValue(H) == PositionalValue(H, 16, 4)
BinValue(B) == PositionalValue(B, 2, 16)

LastToken(ts) == ts[Len(ts)]

(***************************************************************************)
(* Properties.                                                             *)
(***************************************************************************)

\* C1: under a non-Float default numeric mode, every iteration of the
\* driver loop and of its inner loops advances the cursor index by at least
\* one or makes process return (Ok at the end of input, or an error); the
\* only other step is the comment loop ending at the end of input.
C1_EveryIterationAdvancesOrReturns ==
    [][default_numeric # "Float" =>
          \/ index' > index
          \/ pc' \in {"ok", "err"}
          \/ (pc = "comment" /\ current(Self) = None /\ pc' = "process")]_vars

\* C2: a line that ends with a comment and a newline lexes to the same
\* token list as the line without the comment, whatever the comment holds.
CommentBodies == {<<>>, <<"t">>, <<"$", "$", "$">>, <<" ", "#", "0", "x">>}

WithTrailingComment(line, body) ==
    SubSeq(line, 1, Len(line) - 1) \o <<"#">> \o body \o <<"\n">>

C2_TrailingCommentLexesAsWithout ==
    (pc = "ok" /\ chars # <<>> /\ chars[Len(chars)] = "\n"
        /\ \A i \in 1..Len(chars) : chars[i] # "#")
    => \A body \in CommentBodies :
          LET r == Lex(WithTrailingComment(chars, body), default_numeric, overflow_checks)
          IN  r.pc = "ok" /\ r.tokens = tokens

\* The driver is about to call process_unsigned, and where its digit run
\* starts.
CallsUnsigned ==
    /\ pc = "process"
    /\ \/ Dispatch(Self) = "UnsignedPrefix"
       \/ /\ Dispatch(Self) \in {"ZeroDefaultNumeric", "DefaultNumeric"}
          /\ default_numeric = "Unsigned"
          /\ current(Self) # "-"

UnsignedRunStart == IF Dispatch(Self) = "UnsignedPrefix" THEN index + 2 ELSE index

\* C3: in unsigned parsing a maximal run of decimal digits whose value
\* exceeds 2^64 - 1 makes the lexer return InvalidUnsignedIntegerLiteral:
\* no token is appended and the lexer does not abort.
C3_UnsignedOverflowIsAnError ==
    [][(CallsUnsigned /\ DecimalExceedsU64(MaximalRun(chars, UnsignedRunStart, DecDigits)))
          => /\ pc' = "err"
             /\ err'.kind = "InvalidUnsignedIntegerLiteral"
             /\ tokens' = tokens]_vars

\* C4: under default mode Unsigned an input that is a decimal string D of 1
\* to 20 digits with value at most 2^64 - 1 lexes without error to exactly
\* one token, UnsignedIntegerLiteral(value of D) with range [0, Len(D)).
IsDecimalInput ==
    /\ Len(chars) \in 1..20
    /\ \A i \in 1..Len(chars) : chars[i] \in DecDigits
    /\ ~DecimalExceedsU64(chars)

C4_DecimalStringIsOneUnsignedLiteral ==
    (default_numeric = "Unsigned" /\ IsDecimalInput)
    => /\ pc \in {"process", "ok"}
       /\ index = 0 => (pc = "process" /\ tokens = <<>>)
       /\ index > 0 =>
            /\ index = Len(chars)
            /\ Len(tokens) = 1
            /\ tokens[1].tp.kind = "UnsignedIntegerLiteral"
            /\ DecimalOf(tokens[1].tp.val) = StripZeros(chars)
            /\ tokens[1].range = TextRange(Position(0, 0, 0), Position(Len(chars), 0, Len(chars)))

C4_Witness ==
    /\ default_numeric = "Unsigned"
    /\ IsDecimalInput
    /\ Len(chars) = 20
    /\ chars[1] # "0"
    /\ pc = "ok"
    /\ Len(tokens) = 1

\* Lexing exactly the text a token's range spans, under the same default
\* numeric mode, succeeds and yields a single token of the same kind.
RelexesToSameKind(t) ==
    LET r == Lex(RangeString(chars, t.range), default_numeric, overflow_checks)
    IN  /\ r.pc = "ok"
        /\ Len(r.tokens) = 1
        /\ r.tokens[1].tp.kind = t.tp.kind

\* C5 as claimed: range fidelity for every token of a successful run,
\* whatever its kind (tokens of an empty range aside).
C5_EveryTokenRelexesToSameKind ==
    pc = "ok" => \A i \in 1..Len(tokens) :
                    tokens[i].range.end.index > tokens[i].range.start.index
                    => RelexesToSameKind(tokens[i])

\* The arms whose token range starts at the first character the arm
\* consumed: punctuation, identifiers and opcodes, unprefixed literals.
UnprefixedArms == {"Comma", "Colon", "Identifier", "ZeroDefaultNumeric", "DefaultNumeric"}

\* C5: range fidelity holds for every token appended by the punctuation
\* arms, by process_identifier (Identifier, Opcode) and by the default
\* numeric path (unprefixed unsigned and signed literals).
C5_UnprefixedTokensRelexToSameKind ==
    [][(pc = "process" /\ Dispatch(Self) \in UnprefixedArms /\ Len(tokens') = Len(tokens) + 1)
          => RelexesToSameKind(LastToken(tokens'))]_vars

C5_Witness ==
    /\ pc = "ok"
    /\ Len(chars) >= 6
    /\ SubSeq(chars, 1, 6) = <<"a", ",", "c", "a", "l", "l">>
    /\ Len(tokens) >= 3
    /\ tokens[3].tp.kind = "Opcode"
    /\ RelexesToSameKind(tokens[3])

\* The range of the `len` characters that follow the two-character prefix
\* the driver is dispatching on.
RangeAfterPrefix(len) ==
    TextRange(Position(index + 2, row, col + 2), Position(index + 2 + len, row, col + 2 + len))

\* C6: after `0x` the maximal run H of hex digits is consumed; 1 to 16
\* digits give UnsignedIntegerLiteral(base-16 value of H) over exactly H;
\* an empty run, or a value that does not fit 64 bits, gives
\* InvalidHexLiteral over the run and no token.
C6_HexLiteral ==
    [][(pc = "process" /\ Dispatch(Self) = "Hex") =>
          LET H == MaximalRun(chars, index + 2, DecDigits \cup LowerHex \cup UpperHex)
          IN  /\ index' = index + 2 + Len(H)
              /\ Len(H) \in 1..16 =>
                    /\ pc' = "process"
                    /\ tokens' = Append(tokens, Token(TokenType("UnsignedIntegerLiteral", HexValue(H)),
                                                      RangeAfterPrefix(Len(H))))
              /\ (H = <<>> \/ Len(StripZeros(H)) > 16) =>
                    /\ pc' = "err"
                    /\ err' = LexerError("InvalidHexLiteral", None,
                                         RangeAfterPrefix(Len(H)).start, RangeAfterPrefix(Len(H)).end)
                    /\ tokens' = tokens]_vars

C6_Witness ==
    /\ pc = "ok"
    /\ chars = <<"0", "x">> \o Rep("f", 16)
    /\ Len(tokens) = 1
    /\ tokens[1].tp.val = <<65535, 65535, 65535, 65535>>

\* C7: after `0b` a run B of 1 to 64 binary digits gives exactly one
\* UnsignedIntegerLiteral(base-2 value of B) over exactly B; a run of 65 or
\* more gives no token and fails with InvalidBinaryLiteral once the 65th
\* digit is consumed.
C7_BinaryLiteral ==
    [][(pc = "process" /\ Dispatch(Self) = "Binary") =>
          LET B == MaximalRun(chars, index + 2, BinDigits)
          IN  /\ Len(B) \in 1..64 =>
                    /\ pc' = "process"
                    /\ index' = index + 2 + Len(B)
                    /\ tokens' = Append(tokens, Token(TokenType("UnsignedIntegerLiteral", BinValue(B)),
                                                      RangeAfterPrefix(Len(B))))
              /\ Len(B) >= 65 =>
                    /\ pc' = "err"
                    /\ err'.kind = "InvalidBinaryLiteral"
                    /\ index' = index + 2 + 65
                    /\ tokens' = tokens]_vars

C7_Witness ==
    /\ pc = "ok"
    /\ Len(chars) = 66
    /\ SubSeq(chars, 1, 4) = <<"0", "b", "1", "1">>
    /\ Len(tokens) = 1
    /\ tokens[1].tp.val = <<65535, 65535, 65535, 65535>>
    /\ tokens[1].range.start.index = 2
    /\ tokens[1].range.end.index = 66

\* C8 as claimed: the InvalidBinaryLiteral error of a 65th digit starts at
\* the first digit of the run, right after `0b`, and ends just after the
\* 65th digit.
C8_ErrorStartsAtFirstDigit ==
    (pc = "err" /\ err.kind = "InvalidBinaryLiteral")
    => /\ err.end.index = index
       /\ err.start.index = err.end.index - 65
       /\ SubSeq(chars, err.start.index - 1, err.start.index) = <<"0", "b">>

\* C8: the InvalidBinaryLiteral error of a 65th digit starts at the second
\* digit of the run (three characters after the `0` of `0b`) and ends just
\* after the 65th digit: it spans the last 64 of the 65 digits consumed.
C8_ErrorStartsAtSecondDigit ==
    [][(pc = "process" /\ Dispatch(Self) = "Binary"
          /\ Len(MaximalRun(chars, index + 2, BinDigits)) >= 65)
          => err' = LexerError("InvalidBinaryLiteral", None,
                               Position(index + 3, row, col + 3),
                               Position(index + 67, row, col + 67))]_vars

C8_Witness ==
    /\ pc = "err"
    /\ err.kind = "InvalidBinaryLiteral"
    /\ chars = <<" ", "0", "b">> \o Rep("1", 65)
    /\ err.start.index = 4
    /\ err.end.index = 68

\* The sixteen register spellings (without the `$`), in the order of the
\* register values tests::test_registers expects for them.
RegisterSpellings ==
    << <<"r", "s", "p">>, <<"r", "f", "p">>, <<"r", "o", "u">>, <<"r", "f", "l">>,
       <<"r", "r", "a">>, <<"r", "r", "b">>,
       <<"r", "0">>, <<"r", "1">>, <<"r", "2">>, <<"r", "3">>, <<"r", "4">>,
       <<"r", "5">>, <<"r", "6">>, <<"r", "7">>, <<"r", "8">>, <<"r", "9">> >>

\* The register spelling that follows the `$` under the cursor, as an index
\* into RegisterSpellings, when it ends at a non-alphanumeric character or
\* at the end of input; 0 otherwise.
SpellingAtCursor ==
    LET word == MaximalRun(chars, index + 1, Alphanumerics)
    IN  IF \E k \in 1..Len(RegisterSpellings) : RegisterSpellings[k] = word
        THEN CHOOSE k \in 1..Len(RegisterSpellings) : RegisterSpellings[k] = word
        ELSE 0

\* C9: each of the sixteen register spellings, followed by a
\* non-alphanumeric character or the end of input, lexes to exactly one
\* Register token; distinct spellings give distinct register values (the
\* k-th spelling gives value k - 1), and `$r<d>` gives ordinal(R0) + d.
C9_RegisterSpellings ==
    [][(pc = "process" /\ Dispatch(Self) = "Register" /\ SpellingAtCursor # 0) =>
          /\ pc' = "process"
          /\ Len(tokens') = Len(tokens) + 1
          /\ SubSeq(tokens', 1, Len(tokens)) = tokens
          /\ LastToken(tokens').tp = TokenType("Register", SpellingAtCursor - 1)
          /\ index' = index + 1 + Len(RegisterSpellings[SpellingAtCursor])
          /\ is_digit(chars[index + 3], 10) =>
                LastToken(tokens').tp.val = R0 + to_digit(chars[index + 3])]_vars

C9_Witness ==
    /\ pc = "ok"
    /\ chars = <<"$", "r", "f", "l", ",">>
    /\ Len(tokens) = 2
    /\ tokens[1].tp = TokenType("Register", RFL)

\* C10 as claimed: an input that ends right after `$` or right after `$r`
\* makes the lexer return ExpectedRegisterFoundEOF and append no token.
C10_EofAfterDollarOrR ==
    [][(pc = "process" /\ Dispatch(Self) = "Register"
          /\ SubSeq(chars, index + 2, Len(chars)) \in {<<>>, <<"r">>})
          => /\ pc' = "err"
             /\ err'.kind = "ExpectedRegisterFoundEOF"
             /\ tokens' = tokens]_vars

\* C10: an input that ends right after `$`, or right after `$r` and one of
\* the letters f, s, o, r, makes the lexer return ExpectedRegisterFoundEOF
\* at the position after the `$`; an input that ends right after `$r` makes
\* it return InvalidRegister from that position to the end of input.  No
\* token is appended in either case.
C10_EofInsideRegister ==
    [][(pc = "process" /\ Dispatch(Self) = "Register") =>
          LET rest == SubSeq(chars, index + 2, Len(chars))
              after == Position(index + 1, row, col + 1)
          IN  /\ rest \in {<<>>, <<"r", "f">>, <<"r", "s">>, <<"r", "o">>, <<"r", "r">>} =>
                    /\ pc' = "err"
                    /\ err' = LexerError("ExpectedRegisterFoundEOF", None, after, after)
                    /\ tokens' = tokens
              /\ rest = <<"r">> =>
                    /\ pc' = "err"
                    /\ err' = LexerError("InvalidRegister", None, after,
                                         Position(index + 2, row, col + 2))
                    /\ tokens' = tokens]_vars

C10_Witness ==
    /\ pc = "err"
    /\ err.kind = "ExpectedRegisterFoundEOF"
    /\ Len(chars) >= 3
    /\ SubSeq(chars, Len(chars) - 2, Len(chars)) = <<"$", "r", "s">>
    /\ err.start.index = Len(chars) - 2
    /\ index = Len(chars)

\* The character at 0-based offset k of the input, None past its end.
CharAt(k) == IF k < Len(chars) THEN chars[k + 1] ELSE None

\* C11: for `$r<d>`, a Register token is appended only if the digit is
\* followed by a non-alphanumeric character or the end of input; if an
\* alphanumeric character follows the digit the lexer returns
\* InvalidRegister and appends no token.
C11_DigitRegisterNeedsBoundary ==
    [][(pc = "process" /\ Dispatch(Self) = "Register"
          /\ CharAt(index + 1) = "r"
          /\ CharAt(index + 2) # None /\ is_digit(CharAt(index + 2), 10)) =>
          LET follow == CharAt(index + 3)
          IN  IF follow = None \/ ~is_alphanumeric(follow)
              THEN /\ pc' = "process"
                   /\ Len(tokens') = Len(tokens) + 1
                   /\ LastToken(tokens').tp.kind = "Register"
                   /\ index' = index + 3
              ELSE /\ pc' = "err"
                   /\ err'.kind = "InvalidRegister"
                   /\ tokens' = tokens]_vars

C11_Witness ==
    /\ pc = "err"
    /\ err.kind = "InvalidRegister"
    /\ chars = <<"$", "r", "1", "0">>
    /\ tokens = <<>>
    /\ index = 4

\* The offset just after the maximal alphanumeric run that follows the `$`
\* at the cursor.
IdentifierEndAfterDollar == RunEnd(chars, index + 1, Alphanumerics)

\* C12 as claimed: every InvalidRegister error carries a range that starts
\* at the `$` and ends just after the last alphanumeric character of the
\* identifier that follows it.
C12_InvalidRegisterRangeFromDollar ==
    [][(pc = "process" /\ Dispatch(Self) = "Register"
          /\ pc' = "err" /\ err'.kind = "InvalidRegister") =>
          /\ err'.start = Position(index, row, col)
          /\ err'.end.index = IdentifierEndAfterDollar]_vars

\* C12: every InvalidRegister error carries a range that starts at the
\* position just after the `$` and ends just after the last alphanumeric
\* character of the identifier that follows the `$` (at the start position
\* itself when no alphanumeric character follows); the cursor is left at
\* the range's end and no token is appended.
C12_InvalidRegisterRangeAfterDollar ==
    [][(pc = "process" /\ Dispatch(Self) = "Register"
          /\ pc' = "err" /\ err'.kind = "InvalidRegister") =>
          LET e == IdentifierEndAfterDollar
          IN  /\ err'.start = Position(index + 1, row, col + 1)
              /\ err'.end = Position(e, row, col + (e - index))
              /\ index' = e
              /\ tokens' = tokens]_vars

C12_Witness ==
    /\ pc = "err"
    /\ err.kind = "InvalidRegister"
    /\ chars = <<"$", "r", "s", "x", ",">>
    /\ err.start.index = 1
    /\ err.end.index = 4

\* The directive keywords and the token kind of each.
DirectiveKinds ==
    [w \in {<<"r", "e", "p", "e", "a", "t">>,
            <<"e", "n", "d", "_", "r", "e", "p", "e", "a", "t">>,
            <<"i", "f">>, <<"e", "l", "s", "e">>, <<"e", "n", "d", "i", "f">>,
            <<"i", "m", "p", "o", "r", "t">>, <<"c", "o", "n", "s", "t">>} |->
        CASE w = <<"r", "e", "p", "e", "a", "t">> -> "Repeat"
          [] w = <<"e", "n", "d", "_", "r", "e", "p", "e", "a", "t">> -> "EndRepeat"
          [] w = <<"i", "f">> -> "If"
          [] w = <<"e", "l", "s", "e">> -> "Else"
          [] w = <<"e", "n", "d", "i", "f">> -> "Endif"
          [] w = <<"i", "m", "p", "o", "r", "t">> -> "Import"
          [] OTHER -> "Constant"]

\* C13: on `%` the lexer consumes the maximal run of alphabetic characters
\* and `_` that follows.  A keyword run appends exactly one token of the
\* keyword's kind over the run; any other non-empty run returns
\* UnknownDirective over the whole run and appends no token; an empty run
\* returns EmptyIdentifier at the position after the `%`.
C13_Directive ==
    [][(pc = "process" /\ Dispatch(Self) = "Directive") =>
          LET e == RunEnd(chars, index + 1, Letters \cup {"_"})
              word == MaximalRun(chars, index + 1, Letters \cup {"_"})
              from == Position(index + 1, row, col + 1)
              to == Position(e, row, col + (e - index))
          IN  /\ index' = e
              /\ IF word = <<>>
                 THEN /\ pc' = "err"
                      /\ err' = LexerError("EmptyIdentifier", None, from, from)
                      /\ tokens' = tokens
                 ELSE IF word \in DOMAIN DirectiveKinds
                 THEN /\ pc' = "process"
                      /\ tokens' = Append(tokens, Token(TokenType(DirectiveKinds[word], NoVal),
                                                        TextRange(from, to)))
                 ELSE /\ pc' = "err"
                      /\ err' = LexerError("UnknownDirective", None, from, to)
                      /\ tokens' = tokens]_vars

C13_Witness ==
    /\ pc = "err"
    /\ err.kind = "UnknownDirective"
    /\ chars = <<" ", "%", "b", "o", "g", "u", "s", ",">>
    /\ err.start.index = 2
    /\ err.end.index = 7

C13_WitnessKeyword ==
    /\ pc = "ok"
    /\ chars = <<"%", "e", "n", "d", "_", "r", "e", "p", "e", "a", "t">>
    /\ Len(tokens) = 1
    /\ tokens[1].tp.kind = "EndRepeat"

\* The driver is about to call process_signed, and where the literal (sign
\* or first digit) starts.
CallsSigned ==
    /\ pc = "process"
    /\ \/ Dispatch(Self) = "SignedPrefix"
       \/ /\ Dispatch(Self) \in {"ZeroDefaultNumeric", "DefaultNumeric"}
          /\ default_numeric = "Signed"

SignedStart == IF Dispatch(Self) = "SignedPrefix" THEN index + 2 ELSE index
SignedHasMinus == CharAt(SignedStart) = "-"
SignedDigitsStart == IF SignedHasMinus THEN SignedStart + 1 ELSE SignedStart
SignedDigits == MaximalRun(chars, SignedDigitsStart, DecDigits)
SignedEnd == RunEnd(chars, SignedDigitsStart, DecDigits)

\* 2^63 - 1 and 2^63 in decimal.
I64MaxDecimal == <<"9", "2", "2", "3", "3", "7", "2", "0", "3", "6", "8", "5", "4", "7", "7", "5", "8", "0", "7">>
I64MinMagnitude == <<"9", "2", "2", "3", "3", "7", "2", "0", "3", "6", "8", "5", "4", "7", "7", "5", "8", "0", "8">>

\* The decimal string D denotes a value above that of B (B without leading
\* zeros).
DecimalAbove(D, B) ==
    LET d == StripZeros(D)
    IN  Len(d) > Len(B) \/ (Len(d) = Len(B) /\ DigitsGreater(d, B))

\* The 64-bit pattern val, read as a signed integer, is the value of the
\* digit string D, negated when negative.
SignedDenotes(val, negative, D) ==
    LET mag == IF IsNegative64(val) THEN Negate64(val) ELSE val
    IN  /\ DecimalOf(mag) = StripZeros(D)
        /\ IsNegative64(val) => negative
        /\ (negative /\ StripZeros(D) # <<>>) => IsNegative64(val)

\* The step appends one SignedIntegerLiteral of the literal's value over
\* sign and digits, and leaves the cursor after the digits.
SignedLiteralStep ==
    /\ pc' = "process"
    /\ index' = SignedEnd
    /\ Len(tokens') = Len(tokens) + 1
    /\ SubSeq(tokens', 1, Len(tokens)) = tokens
    /\ LastToken(tokens').tp.kind = "SignedIntegerLiteral"
    /\ SignedDenotes(LastToken(tokens').tp.val, SignedHasMinus, SignedDigits)
    /\ LastToken(tokens').range =
          TextRange(Position(SignedStart, row, col + (SignedStart - index)),
                    Position(SignedEnd, row, col + (SignedEnd - index)))

\* C14: in signed parsing an optional `-` followed by a non-empty maximal
\* run of decimal digits of value v, -2^63 <= v <= 2^63 - 1, lexes to
\* exactly one SignedIntegerLiteral(v) whose range covers the sign and the
\* digits but not the `0i` prefix.
C14_SignedLiteral ==
    [][(CallsSigned /\ SignedDigits # <<>>
          /\ ~DecimalAbove(SignedDigits, IF SignedHasMinus THEN I64MinMagnitude ELSE I64MaxDecimal))
          => SignedLiteralStep]_vars

\* The part of C14 the code keeps: the same for |v| <= 2^63 - 1.
C14_SignedLiteralBelowMinMagnitude ==
    [][(CallsSigned /\ SignedDigits # <<>> /\ ~DecimalAbove(SignedDigits, I64MaxDecimal))
          => SignedLiteralStep]_vars

C14_WitnessTestSignedInt ==
    /\ pc = "ok"
    /\ chars = <<"0", "i", "-", "1", "2", "3">>
    /\ Len(tokens) = 1
    /\ tokens[1].tp.kind = "SignedIntegerLiteral"
    /\ DecimalOf(Negate64(tokens[1].tp.val)) = <<"1", "2", "3">>
    /\ tokens[1].range.start.index = 2
    /\ tokens[1].range.end.index = 6

\* C15: in signed parsing, when no decimal digit follows the optional `-`,
\* the lexer returns InvalidSignedIntegerLiteral with a zero-width range at
\* the cursor (after the `-` if one was consumed) and appends no token.
C15_SignedWithoutDigitsIsAnError ==
    [][(CallsSigned /\ SignedDigits = <<>>) =>
          LET at == Position(SignedDigitsStart, row, col + (SignedDigitsStart - index))
          IN  /\ pc' = "err"
              /\ err' = LexerError("InvalidSignedIntegerLiteral", None, at, at)
              /\ tokens' = tokens]_vars

\* The part of C15 the code keeps: the same when no `-` was consumed.
C15_NoSignNoDigitsIsAnError ==
    [][(CallsSigned /\ SignedDigits = <<>> /\ ~SignedHasMinus) =>
          LET at == Position(SignedDigitsStart, row, col + (SignedDigitsStart - index))
          IN  /\ pc' = "err"
              /\ err' = LexerError("InvalidSignedIntegerLiteral", None, at, at)
              /\ tokens' = tokens]_vars

\* The number of leading digits of D after which its value first exceeds
\* that of B; 0 if it never does.
FirstAbove(D, B) ==
    IF \E k \in 1..Len(D) : DecimalAbove(SubSeq(D, 1, k), B)
    THEN CHOOSE k \in 1..Len(D) : /\ DecimalAbove(SubSeq(D, 1, k), B)
                                  /\ \A j \in 1..(k - 1) : ~DecimalAbove(SubSeq(D, 1, j), B)
    ELSE 0

\* C16: in signed parsing a digit run whose magnitude exceeds 2^63 - 1
\* makes the lexer return InvalidSignedIntegerLiteral, with no token
\* appended and no abort; the error's range starts at the first character
\* of the literal (sign or first digit) and ends just after the digit that
\* caused the overflow.
C16_SignedOverflowIsAnError ==
    [][(CallsSigned /\ DecimalAbove(SignedDigits, I64MaxDecimal)) =>
          /\ pc' = "err"
          /\ err'.kind = "InvalidSignedIntegerLiteral"
          /\ tokens' = tokens
          /\ err'.start.index = SignedStart
          /\ err'.end.index = SignedDigitsStart + FirstAbove(SignedDigits, I64MaxDecimal)]_vars

\* What the code does when only the addition overflows and the literal is
\* not at offset 0: the error is returned, over the range that starts one
\* character before the literal and ends before the overflowing digit.
C16_AdditionOverflowRange ==
    [][(CallsSigned /\ DecimalAbove(SignedDigits, I64MaxDecimal)
          /\ pc' = "err" /\ SignedStart > 0) =>
          /\ err'.kind = "InvalidSignedIntegerLiteral"
          /\ tokens' = tokens
          /\ err'.start.index = SignedStart - 1
          /\ err'.end.index = SignedDigitsStart + FirstAbove(SignedDigits, I64MaxDecimal) - 1]_vars

\* C17: with default mode Unsigned, when the driver dispatches on a `-` the
\* lexer returns UnexpectedCharacter('-') at the position of the `-`,
\* appends no token and leaves index, row and col as they were.
C17_MinusUnderUnsigned ==
    [][(pc = "process" /\ Dispatch(Self) = "DefaultNumeric"
          /\ current(Self) = "-" /\ default_numeric = "Unsigned") =>
          /\ pc' = "err"
          /\ err' = LexerError("UnexpectedCharacter", "-",
                               Position(index, row, col), Position(index, row, col))
          /\ tokens' = tokens
          /\ index' = index /\ row' = row /\ col' = col]_vars

C17_Witness ==
    /\ pc = "err"
    /\ default_numeric = "Unsigned"
    /\ err.kind = "UnexpectedCharacter"
    /\ err.ch = "-"
    /\ chars = <<"\n", "-", "5", ",">>
    /\ index = 1 /\ row = 1 /\ col = 0
    /\ tokens = <<>>

\* C18: on an alphabetic character or `_` the lexer consumes the maximal
\* run of alphabetic characters and `_` and appends exactly one token over
\* that run: Opcode(code) if and only if the run has no `_` and the mnemonic
\* lookup resolves it to code, Identifier otherwise.
C18_IdentifierOrOpcode ==
    [][(pc = "process" /\ Dispatch(Self) = "Identifier") =>
          LET e == RunEnd(chars, index, Letters \cup {"_"})
              word == MaximalRun(chars, index, Letters \cup {"_"})
              range == TextRange(Position(index, row, col), Position(e, row, col + (e - index)))
              plain == \A i \in 1..Len(word) : word[i] # "_"
          IN  /\ pc' = "process"
              /\ index' = e
              /\ e > index
              /\ Len(tokens') = Len(tokens) + 1
              /\ SubSeq(tokens', 1, Len(tokens)) = tokens
              /\ LastToken(tokens').range = range
              /\ IF plain /\ from_string(word).some
                 THEN /\ LastToken(tokens').tp.kind = "Opcode"
                      /\ LastToken(tokens').tp.val = from_string(word).code
                 ELSE LastToken(tokens').tp.kind = "Identifier"]_vars

\* C18, the example: `call MAIN` gives Opcode(call) over [0,4) and
\* Identifier over [5,9).
C18_CallMain ==
    (chars = <<"c", "a", "l", "l", " ", "M", "A", "I", "N">> /\ pc = "ok") =>
        /\ Len(tokens) = 2
        /\ tokens[1].tp.kind = "Opcode"
        /\ tokens[1].tp.val = from_string(<<"c", "a", "l", "l">>).code
        /\ tokens[1].range = TextRange(Position(0, 0, 0), Position(4, 0, 4))
        /\ tokens[2].tp.kind = "Identifier"
        /\ tokens[2].range = TextRange(Position(5, 0, 5), Position(9, 0, 9))

C18_Witness ==
    /\ pc = "ok"
    /\ chars = <<"c", "a", "l", "l", " ", "M", "A", "I", "N">>
    /\ Len(tokens) = 2
    /\ tokens[1].tp.kind = "Opcode"
    /\ tokens[1].range.end.index = 4
    /\ tokens[2].tp.kind = "Identifier"
    /\ tokens[2].range.start.index = 5

C18_WitnessUnderscore ==
    /\ pc = "ok"
    /\ chars = <<"l", "d", "i", "_">>
    /\ Len(tokens) = 1
    /\ tokens[1].tp.kind = "Identifier"
    /\ tokens[1].range.end.index = 4

\* Consecutive tokens do not overlap and are in source order, every token
\* is well-formed, and no token reaches past the cursor.
TokensInSourceOrder ==
    /\ \A k \in 1..(Len(tokens) - 1) :
          tokens[k].range.end.index <= tokens[k + 1].range.start.index
    /\ \A k \in 1..Len(tokens) :
          /\ 0 <= tokens[k].range.start.index
          /\ tokens[k].range.start.index <= tokens[k].range.end.index
          /\ tokens[k].range.end.index <= index

\* A step leaves the tokens already appended as they are and appends at
\* most one.
TokensAppendOnly ==
    /\ Len(tokens') \in {Len(tokens), Len(tokens) + 1}
    /\ SubSeq(tokens', 1, Len(tokens)) = tokens

\* C19: the token list is append-only and in source order: each driver
\* step leaves the tokens already appended unchanged and appends at most
\* one; of two consecutive tokens the earlier ends at or before the start
\* of the later; each token ends at or before the cursor index.
C19_TokensAppendOnlyInSourceOrder ==
    []TokensInSourceOrder /\ [][TokensAppendOnly]_vars

C19_Witness ==
    /\ pc = "ok"
    /\ chars = <<"a", ",", "$", "r", "s", "p", ",">>
    /\ Len(tokens) = 4
    /\ tokens[2].range.end.index = 2
    /\ tokens[3].range.start.index = 3
    /\ tokens[4].range.end.index = index

\* The offsets below the cursor that hold a newline, and the offset just
\* after the last of them (0 if there is none).
NewlinesBelowCursor == {k \in 0..(index - 1) : CharAt(k) = "\n"}
LineStart ==
    IF NewlinesBelowCursor = {} THEN 0
    ELSE 1 + CHOOSE k \in NewlinesBelowCursor : \A j \in NewlinesBelowCursor : j <= k

\* The cursor is inside the input or at its end, row counts the newlines
\* below it and col is its distance from the start of its line.
CursorConsistent ==
    /\ 0 <= index /\ index <= Len(chars)
    /\ row = Cardinality(NewlinesBelowCursor)
    /\ col = index - LineStart

\* A step never moves the cursor back, and moves it over a newline only in
\* the driver's newline arm, which consumes that one character.
CursorStep ==
    /\ index' >= index
    /\ (\E k \in index..(index' - 1) : CharAt(k) = "\n") =>
          /\ pc = "process" /\ Dispatch(Self) = "Newline"
          /\ index' = index + 1 /\ row' = row + 1 /\ col' = 0

\* C20: the index never decreases and never exceeds the length of the
\* input, row is the number of newlines below the index, col is the index
\* minus the offset just after the last newline below it, and a newline is
\* consumed only by increment_row in the driver's newline arm.
C20_CursorBookkeeping ==
    []CursorConsistent /\ [][CursorStep]_vars

C20_Witness ==
    /\ pc = "ok"
    /\ chars = <<"\n", "$", "r", "s", "p", "\n">>
    /\ index = 6 /\ row = 2 /\ col = 0
    /\ Len(tokens) = 1
    /\ tokens[1].range.start = Position(2, 1, 1)

\* C21: when unsigned parsing finds no decimal digit, which happens only
\* after the `0u` prefix, the lexer returns an error of the signed kind,
\* InvalidSignedIntegerLiteral, with a zero-width range at the cursor
\* (after the prefix), and appends no token.
C21_UnsignedWithoutDigitsIsSignedError ==
    [][(CallsUnsigned /\ MaximalRun(chars, UnsignedRunStart, DecDigits) = <<>>) =>
          LET at == Position(index + 2, row, col + 2)
          IN  /\ Dispatch(Self) = "UnsignedPrefix"
              /\ pc' = "err"
              /\ err' = LexerError("InvalidSignedIntegerLiteral", None, at, at)
              /\ tokens' = tokens
              /\ index' = index + 2]_vars

C21_Witness ==
    /\ pc = "err"
    /\ err.kind = "InvalidSignedIntegerLiteral"
    /\ chars = <<" ", "0", "u", ",">>
    /\ err.start.index = 3
    /\ err.end.index = 3
    /\ tokens = <<>>

\* The step made no call of current_range whose subtraction overflowed:
\* it did not abort on the subtraction, and neither the range of the error
\* it returned nor that of a token it appended has a wrapped start.
NoRangeUnderflow ==
    /\ ~(pc' = "panic" /\ err'.kind = "attempt to subtract with overflow")
    /\ pc' = "err" => (err'.start.index >= 0 /\ err'.start.col >= 0)
    /\ \A k \in 1..Len(tokens') :
          tokens'[k].range.start.index >= 0 /\ tokens'[k].range.start.col >= 0

\* C22: every call of current_range(lexeme_len) reachable from process has
\* lexeme_len <= col <= index, so neither subtraction underflows, the calls
\* on the overflow-error paths of process_signed and process_unsigned
\* included, wherever the literal starts.
C22_CurrentRangeNeverUnderflows ==
    [](col <= index) /\ [][NoRangeUnderflow]_vars

\* The part of C22 the code keeps: the calls made to build a token's range
\* never underflow, and col <= index throughout.
C22_TokenRangesNeverUnderflow ==
    [](col <= index)
    /\ [][\A k \in 1..Len(tokens') :
            tokens'[k].range.start.index >= 0 /\ tokens'[k].range.start.col >= 0]_vars

\* The driver is at one of the prefixes `0x`, `0b`, `0i`, `0u` and no digit
\* of the prefix's radix follows it.
PrefixWithoutDigits ==
    /\ pc = "process"
    /\ \/ Dispatch(Self) = "Hex" /\ MaximalRun(chars, index + 2, DecDigits \cup LowerHex \cup UpperHex) = <<>>
       \/ Dispatch(Self) = "Binary" /\ MaximalRun(chars, index + 2, BinDigits) = <<>>
       \/ Dispatch(Self) = "UnsignedPrefix" /\ MaximalRun(chars, index + 2, DecDigits) = <<>>
       \/ Dispatch(Self) = "SignedPrefix" /\ SignedDigits = <<>>

EveryTokenIsNonEmpty ==
    \A k \in 1..Len(tokens) : tokens[k].range.end.index > tokens[k].range.start.index

\* C23: every token of the token list has a non-empty range, and no token
\* is appended for an empty digit run after `0x`, `0b`, `0i` or `0u`.
C23_NoEmptyToken ==
    []EveryTokenIsNonEmpty /\ [][PrefixWithoutDigits => tokens' = tokens]_vars

\* What the code keeps of C23: a token with an empty range is the literal 0
\* that `0b` without digits gives, and an empty digit run gives a token only
\* after `0b` or after `0i-`.
C23_EmptyTokenOnlyAfterBinaryPrefix ==
    /\ [](\A k \in 1..Len(tokens) :
            \/ tokens[k].range.end.index > tokens[k].range.start.index
            \/ /\ tokens[k].range.end.index = tokens[k].range.start.index
               /\ tokens[k].tp.kind = "UnsignedIntegerLiteral"
               /\ tokens[k].tp.val = Zero64
               /\ tokens[k].range.start.index >= 2
               /\ SubSeq(chars, tokens[k].range.start.index - 1,
                         tokens[k].range.start.index) = <<"0", "b">>)
    /\ [][(PrefixWithoutDigits /\ tokens' # tokens) =>
            \/ Dispatch(Self) = "Binary"
            \/ Dispatch(Self) = "SignedPrefix" /\ SignedHasMinus]_vars

====
